---- MODULE Spec2Model ----
(***************************************************************************)
(* Opal custom tools: the request handlers create_experiment,              *)
(* update_experiment, list_events and generate_experiment_report.          *)
(*                                                                         *)
(* Every handler is an async function: a synchronous prefix (validation,   *)
(* parsing, authentication, request assembly) that either throws or calls  *)
(* fetch, then the awaits on the response (fetch itself, response.json(),  *)
(* response.text()), then a synchronous suffix that returns a result or    *)
(* throws.  The model runs one invocation at a time through these steps.   *)
(*                                                                         *)
(* The repository holds several revisions of create_experiment and of      *)
(* update_experiment side by side; each one is modelled as its own tool.   *)
(***************************************************************************)
EXTENDS Integers, Sequences, FiniteSets, TLC

(***************************************************************************)
(* JavaScript values.  Every value is a record tagged by its type, so that *)
(* values of different types can be told apart.  A number is kept as its   *)
(* decimal literal (the account id 22816830226 does not fit 32 bits).      *)
(* An object keeps its members in insertion order.                         *)
(***************************************************************************)
Undefined == [t |-> "undefined"]

Null == [t |-> "null"]

Str(s) == [t |-> "string", s |-> s]

Num(lit) == [t |-> "number", lit |-> lit]

Bool(b) == [t |-> "boolean", b |-> b]

Arr(items) == [t |-> "array", items |-> items]

Obj(members) == [t |-> "object", members |-> members]

Member(k, v) == [k |-> k, v |-> v]

NaN == Num("NaN")

\* !v
Falsy(v) ==
    \/ v.t \in {"undefined", "null"}
    \/ (v.t = "string" /\ v.s = "")
    \/ (v.t = "number" /\ v.lit \in {"0", "NaN"})
    \/ (v.t = "boolean" /\ ~v.b)

\* a || b
Or(a, b) == IF Falsy(a) THEN b ELSE a

Nullish(v) == v.t \in {"undefined", "null"}

\* A check that takes no value for an array.
NeverArray(v) == FALSE

\* Array.isArray(v)
IsArray(v) == v.t = "array"

\* Indices of the members of an object that carry key k.
KeyIdx(o, k) == {i \in 1..Len(o.members) : o.members[i].k = k}

\* o[k] for a value o that is not null or undefined (reading a property of
\* null or undefined throws a TypeError, which the callers model).
Get(o, k) ==
    IF o.t = "object" /\ KeyIdx(o, k) # {}
    THEN o.members[CHOOSE i \in KeyIdx(o, k) : TRUE].v
    ELSE Undefined

\* o?.k
OptGet(o, k) == IF Nullish(o) THEN Undefined ELSE Get(o, k)

\* o[k] = v on an object: an existing key keeps its place, a new key is
\* appended.
ObjSet(o, k, v) ==
    IF KeyIdx(o, k) # {}
    THEN LET i == CHOOSE j \in KeyIdx(o, k) : TRUE
         IN  Obj(SubSeq(o.members, 1, i - 1) \o <<Member(k, v)>>
                 \o SubSeq(o.members, i + 1, Len(o.members)))
    ELSE Obj(Append(o.members, Member(k, v)))

\* { ...a, ...b } restricted to the members of b from position i on.
RECURSIVE SpreadFrom(_, _, _)
SpreadFrom(a, b, i) ==
    IF i > Len(b.members) THEN a
    ELSE SpreadFrom(ObjSet(a, b.members[i].k, b.members[i].v), b, i + 1)

\* { ...a, ...b }; spreading a value that is not an object adds nothing.
Spread(a, b) == IF b.t = "object" THEN SpreadFrom(a, b, 1) ELSE a

\* A rest pattern that leaves the named properties in.
KeepAll(o, keys) == o

\* const { k1, k2, ...rest } = o
Rest(o, keys) == Obj(SelectSeq(o.members, LAMBDA m : m.k \notin keys))

\* Concatenation of the strings parts[lo..hi].
RECURSIVE ConcatRange(_, _, _)
ConcatRange(parts, lo, hi) ==
    IF lo > hi THEN ""
    ELSE IF lo = hi THEN parts[lo]
    ELSE LET mid == (lo + hi) \div 2
         IN  ConcatRange(parts, lo, mid) \o ConcatRange(parts, mid + 1, hi)

\* Concatenation of a sequence of strings.
Concat(parts) == ConcatRange(parts, 1, Len(parts))

\* String(v), also what a template literal does with ${v}.  An array is
\* joined with commas, null and undefined elements giving the empty string.
RECURSIVE JSString(_), JoinFrom(_, _)
JSString(v) ==
    CASE v.t = "string" -> v.s
      [] v.t = "number" -> v.lit
      [] v.t = "boolean" -> IF v.b THEN "true" ELSE "false"
      [] v.t = "undefined" -> "undefined"
      [] v.t = "null" -> "null"
      [] v.t = "object" -> "[object Object]"
      [] v.t = "array" -> JoinFrom(v.items, 1)
JoinFrom(items, i) ==
    IF i > Len(items) THEN ""
    ELSE (IF i > 1 THEN "," ELSE "")
         \o (IF Nullish(items[i]) THEN "" ELSE JSString(items[i]))
         \o JoinFrom(items, i + 1)

(***************************************************************************)
(* JSON.stringify(value, null, gap).  The text is produced as a sequence   *)
(* of pieces (punctuation, keys, literals) whose concatenation is the      *)
(* JSON text; gap = "" gives the compact form.  Members whose value is     *)
(* undefined are left out of objects; undefined in an array becomes null.  *)
(***************************************************************************)
Kept(o) == SelectSeq(o.members, LAMBDA m : m.v.t # "undefined")

RECURSIVE StringifyPieces(_, _, _), StringifyMembers(_, _, _, _), StringifyItems(_, _, _, _)
StringifyPieces(v, gap, indent) ==
    CASE v.t = "string" -> <<"\"", v.s, "\"">>
      [] v.t = "number" -> <<IF v.lit = "NaN" THEN "null" ELSE v.lit>>
      [] v.t = "boolean" -> <<IF v.b THEN "true" ELSE "false">>
      [] v.t = "null" -> <<"null">>
      [] v.t = "undefined" -> <<"null">>
      [] v.t = "array" ->
            IF v.items = <<>> THEN <<"[]">>
            ELSE IF gap = ""
                 THEN <<"[">> \o StringifyItems(v.items, 1, gap, indent) \o <<"]">>
                 ELSE <<"[", "\n" \o indent \o gap>>
                      \o StringifyItems(v.items, 1, gap, indent \o gap)
                      \o <<"\n" \o indent, "]">>
      [] v.t = "object" ->
            IF Kept(v) = <<>> THEN <<"{}">>
            ELSE IF gap = ""
                 THEN <<"{">> \o StringifyMembers(Kept(v), 1, gap, indent) \o <<"}">>
                 ELSE <<"{", "\n" \o indent \o gap>>
                      \o StringifyMembers(Kept(v), 1, gap, indent \o gap)
                      \o <<"\n" \o indent, "}">>
StringifyMembers(ms, i, gap, indent) ==
    IF i > Len(ms) THEN <<>>
    ELSE (IF i > 1 THEN <<IF gap = "" THEN "," ELSE ",\n" \o indent>> ELSE <<>>)
         \o <<"\"", ms[i].k, "\"", IF gap = "" THEN ":" ELSE ": ">>
         \o StringifyPieces(ms[i].v, gap, indent)
         \o StringifyMembers(ms, i + 1, gap, indent)
StringifyItems(items, i, gap, indent) ==
    IF i > Len(items) THEN <<>>
    ELSE (IF i > 1 THEN <<IF gap = "" THEN "," ELSE ",\n" \o indent>> ELSE <<>>)
         \o StringifyPieces(items[i], gap, indent)
         \o StringifyItems(items, i + 1, gap, indent)

\* JSON.stringify(v): the compact JSON text of a value that is not undefined.
JSONStringify(v) == Concat(StringifyPieces(v, "", ""))

(***************************************************************************)
(* Strings as characters.  TLC strings are atomic, so the operations that  *)
(* read a string character by character (parseInt, startsWith, split,      *)
(* trim) work on the character sequence of the string, given by CharsOf    *)
(* for every string the model feeds to them.                               *)
(***************************************************************************)
CharsOf(s) ==
    CASE s = "" -> <<>>
      [] s = "12345" -> <<"1", "2", "3", "4", "5">>
      [] s = "678" -> <<"6", "7", "8">>
      [] s = "910" -> <<"9", "1", "0">>
      [] s = "42" -> <<"4", "2">>
      [] s = "007" -> <<"0", "0", "7">>
      [] s = " 42" -> <<" ", "4", "2">>
      [] s = "-5" -> <<"-", "5">>
      [] s = "12abc" -> <<"1", "2", "a", "b", "c">>
      [] s = "4.9" -> <<"4", ".", "9">>
      [] s = "abc" -> <<"a", "b", "c">>
      [] s = "undefined" -> <<"u", "n", "d", "e", "f", "i", "n", "e", "d">>
      [] s = "A, B, C" -> <<"A", ",", " ", "B", ",", " ", "C">>
      [] s = "A" -> <<"A">>
      [] s = " A ,,B " -> <<" ", "A", " ", ",", ",", "B", " ">>
      [] s = "[\"A\",\"B\"]" -> <<"[", "\"", "A", "\"", ",", "\"", "B", "\"", "]">>
      [] s = "[\"A\", \"B\"" -> <<"[", "\"", "A", "\"", ",", " ", "\"", "B", "\"">>
      [] s = "[A, B" -> <<"[", "A", ",", " ", "B">>
      [] s = " [\"A\"]" -> <<" ", "[", "\"", "A", "\"", "]">>

\* The string of a character sequence.
StrOf(cs) == Concat(cs)

IsDigit(c) == c \in {"0", "1", "2", "3", "4", "5", "6", "7", "8", "9"}

DigitVal(c) ==
    CASE c = "0" -> 0 [] c = "1" -> 1 [] c = "2" -> 2 [] c = "3" -> 3
      [] c = "4" -> 4 [] c = "5" -> 5 [] c = "6" -> 6 [] c = "7" -> 7
      [] c = "8" -> 8 [] c = "9" -> 9

IsWhiteSpace(c) == c \in {" ", "\t", "\n", "\r"}

\* The longest prefix of cs whose characters are digits.
RECURSIVE DigitPrefix(_)
DigitPrefix(cs) ==
    IF cs = <<>> \/ ~IsDigit(cs[1]) THEN <<>>
    ELSE <<cs[1]>> \o DigitPrefix(Tail(cs))

\* cs without its leading white space.
RECURSIVE TrimStart(_)
TrimStart(cs) ==
    IF cs # <<>> /\ IsWhiteSpace(cs[1]) THEN TrimStart(Tail(cs)) ELSE cs

\* cs without its trailing white space.
RECURSIVE TrimEnd(_)
TrimEnd(cs) ==
    IF cs # <<>> /\ IsWhiteSpace(cs[Len(cs)])
    THEN TrimEnd(SubSeq(cs, 1, Len(cs) - 1))
    ELSE cs

\* The value of a sequence of decimal digits.
RECURSIVE DigitsValue(_)
DigitsValue(ds) ==
    IF ds = <<>> THEN 0
    ELSE 10 * DigitsValue(SubSeq(ds, 1, Len(ds) - 1)) + DigitVal(ds[Len(ds)])

\* parseInt(s, 10): leading white space is skipped, then an optional sign,
\* then the longest run of decimal digits is read and whatever follows it is
\* ignored; NaN when there is no digit to read.
ParseInt(s) ==
    LET trimmed == TrimStart(CharsOf(s))
        signed == trimmed # <<>> /\ trimmed[1] \in {"+", "-"}
        negative == signed /\ trimmed[1] = "-"
        digits == DigitPrefix(IF signed THEN Tail(trimmed) ELSE trimmed)
    IN  IF digits = <<>> THEN NaN
        ELSE Num(ToString((IF negative THEN -1 ELSE 1) * DigitsValue(digits)))

\* isNaN(v) for a number v
IsNaN(v) == v = NaN

\* s.startsWith(prefix) for a one-character prefix
StartsWith(s, c) == CharsOf(s) # <<>> /\ CharsOf(s)[1] = c

\* s.split(","): the pieces between the commas, as character sequences.
RECURSIVE SplitComma(_, _)
SplitComma(cs, current) ==
    IF cs = <<>> THEN <<current>>
    ELSE IF cs[1] = "," THEN <<current>> \o SplitComma(Tail(cs), <<>>)
    ELSE SplitComma(Tail(cs), Append(current, cs[1]))

\* s.trim()
Trim(cs) == TrimEnd(TrimStart(cs))

(***************************************************************************)
(* JSON.parse.  The texts the model hands to JSON.parse and what the       *)
(* parser makes of each: the value, or the SyntaxError's message.          *)
(***************************************************************************)
ParseOk(v) == [ok |-> TRUE, value |-> v]

ParseFail(msg) == [ok |-> FALSE, error |-> msg]

MetricsMinimal == "[{\"event_id\":1}]"

MetricsFull == "[{\"event_id\":2,\"aggregator\":\"sum\",\"account_id\":777,\"event_type\":\"click\",\"scope\":\"session\",\"winning_direction\":\"decreasing\"}]"

MetricsTwo == "[{\"event_id\":1},{\"event_id\":3,\"scope\":\"event\"}]"

MetricsEmptyAggregator == "[{\"event_id\":4,\"aggregator\":\"\"}]"

MetricsObject == "{\"event_id\":5}"

MetricsNullElement == "[null]"

MetricsMalformed == "[{\"event_id\":"

VariationsCustom == "[{\"name\":\"A\",\"weight\":3000},{\"name\":\"B\",\"weight\":7000}]"

VariationsMalformed == "[{\"name\":"

BodyExperiment == "{\"id\":7}"

BodyEvents == "[{\"id\":1},{\"id\":2}]"

BodyErrorSpaced == "{ \"error\": \"nope\" }"

BodyReport == "{\"reportId\":\"r-1\",\"pdfUrl\":\"https://files.example/r-1.pdf\",\"message\":\"sent\"}"

BodyNull == "null"

BodyHtml == "<h1>Bad Gateway</h1>"

BodyPlain == "OK"

ActionsJson == "[\"A\",\"B\"]"

ActionsJsonUnclosed == "[\"A\", \"B\""

ActionsBracketWords == "[A, B"

ResultsMalformed == "{\"experiment_id\":"

ResultsValid == "{\"experiment_id\":9001,\"start_time\":\"2025-10-15T10:30:29Z\",\"end_time\":\"2025-10-16T16:05:42Z\",\"confidence_threshold\":0.95,\"metrics\":[{\"name\":\"CTA clicks\",\"results\":{\"v1\":{\"name\":\"Original\",\"is_baseline\":true,\"rate\":0.25},\"v2\":{\"name\":\"Variation #2\",\"rate\":0.5,\"lift\":{\"significance\":0.75,\"value\":0.625}}}}],\"reach\":{\"total_count\":823,\"variations\":{\"v1\":{\"count\":277,\"name\":\"Original\",\"is_baseline\":true},\"v2\":{\"count\":546,\"name\":\"Variation #2\"}}},\"stats_config\":{\"confidence_level\":0.9}}"

ResultsValidValue ==
    Obj(<<Member("experiment_id", Num("9001")),
          Member("start_time", Str("2025-10-15T10:30:29Z")),
          Member("end_time", Str("2025-10-16T16:05:42Z")),
          Member("confidence_threshold", Num("0.95")),
          Member("metrics", Arr(<<Obj(<<Member("name", Str("CTA clicks")),
                      Member("results", Obj(<<Member("v1", Obj(<<Member("name", Str("Original")),
                                  Member("is_baseline", Bool(TRUE)),
                                  Member("rate", Num("0.25"))>>)),
                            Member("v2", Obj(<<Member("name", Str("Variation #2")),
                                  Member("rate", Num("0.5")),
                                  Member("lift", Obj(<<Member("significance", Num("0.75")),
                                        Member("value", Num("0.625"))>>))>>))>>))>>)>>)),
          Member("reach", Obj(<<Member("total_count", Num("823")),
                Member("variations", Obj(<<Member("v1", Obj(<<Member("count", Num("277")),
                            Member("name", Str("Original")),
                            Member("is_baseline", Bool(TRUE))>>)),
                      Member("v2", Obj(<<Member("count", Num("546")),
                            Member("name", Str("Variation #2"))>>))>>))>>)),
          Member("stats_config", Obj(<<Member("confidence_level", Num("0.9"))>>))>>)

ResultsNoMetrics == "{\"experiment_id\":9001,\"start_time\":\"2025-10-15T10:30:29Z\",\"end_time\":\"2025-10-16T16:05:42Z\",\"reach\":{\"total_count\":823,\"variations\":{}},\"stats_config\":{\"confidence_level\":0.9}}"

ResultsNoMetricsValue ==
    Obj(<<Member("experiment_id", Num("9001")),
          Member("start_time", Str("2025-10-15T10:30:29Z")),
          Member("end_time", Str("2025-10-16T16:05:42Z")),
          Member("reach", Obj(<<Member("total_count", Num("823")),
                Member("variations", Obj(<<>>))>>)),
          Member("stats_config", Obj(<<Member("confidence_level", Num("0.9"))>>))>>)

\* Results payloads built field by field: the text a caller passes is the
\* JSON.stringify of the value, and JSON.parse gives the value back.
ResultsWith(start_time, end_time, confidence_level, metrics) ==
    Obj(<<Member("experiment_id", Num("9001")),
          Member("start_time", Str(start_time)),
          Member("end_time", Str(end_time)),
          Member("confidence_threshold", Num("0.95")),
          Member("metrics", Arr(metrics)),
          Member("reach", Get(ResultsValidValue, "reach")),
          Member("stats_config",
                 Obj(<<Member("confidence_level", Num(confidence_level))>>))>>)

LiftOf(value) ==
    Obj(<<Member("significance", Num("0.75")), Member("value", Num(value))>>)

LiftWithoutValue == Obj(<<Member("significance", Num("0.75"))>>)

LiftValues == {"-0.25", "0", "0.0004", "0.25", "0.625", "0.6257", "1.5"}

LiftInputs == {Undefined, LiftWithoutValue} \cup {LiftOf(value) : value \in LiftValues}

\* A metric with one result per entry of lifts; Undefined stands for a
\* variation without a lift object.
MetricWith(lifts) ==
    Obj(<<Member("name", Str("CTA clicks")),
          Member("results",
                 Obj([i \in 1..Len(lifts) |->
                        Member("v" \o ToString(i),
                               Obj(<<Member("name", Str("Variation #" \o ToString(i))),
                                     Member("rate", Num("0.25"))>>
                                   \o (IF lifts[i] = Undefined THEN <<>>
                                       ELSE <<Member("lift", lifts[i])>>)))]))>>)

MetricsOfValid == Get(ResultsValidValue, "metrics").items

StartTime == "2025-10-15T10:30:29Z"

EndTime == "2025-10-16T16:05:42Z"

DateTexts ==
    {StartTime, "2025-10-15T10:30:29.001Z", "2025-10-16T10:30:29Z",
     "2025-10-16T10:30:29.001Z", EndTime, "not a date"}

ConfidenceLevels == {"0", "0.5", "0.9", "1"}

\* The valid results without one of the fields the transformation reads.
ResultsLacking ==
    {Rest(ResultsValidValue, {field}) :
        field \in {"start_time", "end_time", "experiment_id", "metrics", "reach",
                   "stats_config"}}
    \cup {ObjSet(ResultsValidValue, "metrics",
                 Arr(<<Rest(MetricsOfValid[1], {"results"})>>)),
          ObjSet(ResultsValidValue, "reach",
                 Rest(Get(ResultsValidValue, "reach"), {"variations"})),
          ObjSet(ResultsValidValue, "reach",
                 Rest(Get(ResultsValidValue, "reach"), {"total_count"})),
          ObjSet(ResultsValidValue, "stats_config", Obj(<<>>))}

ResultsValues ==
    {ResultsWith(start, end, "0.9", MetricsOfValid) : start \in DateTexts, end \in DateTexts}
    \cup {ResultsWith(StartTime, EndTime, level, MetricsOfValid) : level \in ConfidenceLevels}
    \cup {ResultsWith(StartTime, EndTime, "0.9", <<MetricWith(<<a, b>>)>>) :
             a \in LiftInputs, b \in LiftInputs}
    \cup {ResultsWith(StartTime, EndTime, "0.9", metrics) :
             metrics \in {<<>>,
                          <<MetricWith(<<LiftOf("0.25")>>)>>,
                          <<MetricWith(<<Undefined, LiftOf("-0.25"), LiftOf("0.6257")>>),
                            MetricWith(<<Undefined, Undefined>>)>>}}
    \cup ResultsLacking

ResultsTexts == {<<JSONStringify(value), value>> : value \in ResultsValues}

ResultsByText ==
    [text \in {pair[1] : pair \in ResultsTexts} |->
        (CHOOSE pair \in ResultsTexts : pair[1] = text)[2]]

JSONParse(text) ==
    CASE text = MetricsMinimal ->
            ParseOk(Arr(<<Obj(<<Member("event_id", Num("1"))>>)>>))
      [] text = MetricsFull ->
            ParseOk(Arr(<<Obj(<<Member("event_id", Num("2")),
                                Member("aggregator", Str("sum")),
                                Member("account_id", Num("777")),
                                Member("event_type", Str("click")),
                                Member("scope", Str("session")),
                                Member("winning_direction", Str("decreasing"))>>)>>))
      [] text = MetricsTwo ->
            ParseOk(Arr(<<Obj(<<Member("event_id", Num("1"))>>),
                          Obj(<<Member("event_id", Num("3")),
                                Member("scope", Str("event"))>>)>>))
      [] text = MetricsEmptyAggregator ->
            ParseOk(Arr(<<Obj(<<Member("event_id", Num("4")),
                                Member("aggregator", Str(""))>>)>>))
      [] text = MetricsObject ->
            ParseOk(Obj(<<Member("event_id", Num("5"))>>))
      [] text = MetricsNullElement -> ParseOk(Arr(<<Null>>))
      [] text = MetricsMalformed -> ParseFail("Unexpected end of JSON input")
      [] text = VariationsCustom ->
            ParseOk(Arr(<<Obj(<<Member("name", Str("A")), Member("weight", Num("3000"))>>),
                          Obj(<<Member("name", Str("B")), Member("weight", Num("7000"))>>)>>))
      [] text = VariationsMalformed -> ParseFail("Unexpected end of JSON input")
      [] text = BodyExperiment -> ParseOk(Obj(<<Member("id", Num("7"))>>))
      [] text = BodyEvents ->
            ParseOk(Arr(<<Obj(<<Member("id", Num("1"))>>),
                          Obj(<<Member("id", Num("2"))>>)>>))
      [] text = BodyErrorSpaced -> ParseOk(Obj(<<Member("error", Str("nope"))>>))
      [] text = BodyReport ->
            ParseOk(Obj(<<Member("reportId", Str("r-1")),
                          Member("pdfUrl", Str("https://files.example/r-1.pdf")),
                          Member("message", Str("sent"))>>))
      [] text = BodyNull -> ParseOk(Null)
      [] text = BodyHtml -> ParseFail("Unexpected token < in JSON at position 0")
      [] text = BodyPlain -> ParseFail("Unexpected token O in JSON at position 0")
      [] text = "" -> ParseFail("Unexpected end of JSON input")
      [] text = ActionsJson -> ParseOk(Arr(<<Str("A"), Str("B")>>))
      [] text = ActionsJsonUnclosed -> ParseFail("Unexpected end of JSON input")
      [] text = ActionsBracketWords ->
            ParseFail("Unexpected token A in JSON at position 1")
      [] text = ResultsMalformed -> ParseFail("Unexpected end of JSON input")
      [] text = ResultsValid -> ParseOk(ResultsValidValue)
      [] text = ResultsNoMetrics -> ParseOk(ResultsNoMetricsValue)
      [] text \in DOMAIN ResultsByText -> ParseOk(ResultsByText[text])

(***************************************************************************)
(* What a handler's synchronous code ends in: a thrown Error (its message  *)
(* kept as the sequence of the parts it is built from), a call of fetch,   *)
(* or a returned result.                                                   *)
(***************************************************************************)
Throw(message) == [k |-> "throw", message |-> message]

Return(value) == [k |-> "return", value |-> value]

\* fetch(url, {method, headers, body}): json is the object handed to
\* JSON.stringify for the body (Undefined when the call has no body), body
\* the text sent; locals are the handler's variables its later code reads.
CallFetch(url, method, authorization, json, locals) ==
    [k |-> "fetch",
     request |-> [url |-> url, method |-> method, authorization |-> authorization,
                  contentType |-> "application/json", json |-> json,
                  body |-> IF json = Undefined THEN "" ELSE JSONStringify(json)],
     locals |-> locals]

AuthenticationRequired ==
    "Authentication required. Please ensure OptiID authentication is configured."

\* authData?.credentials?.access_token
accessTokenOf(authData) == OptGet(OptGet(authData, "credentials"), "access_token")

\* A handler that went on without looking at the token.
NoCheck(accessToken) == FALSE
\* if (!accessToken)
MissingToken(accessToken) == Falsy(accessToken)

\* Authorization: `Bearer ${accessToken}`
Bearer(accessToken) == "Bearer " \o JSString(accessToken)

ACCOUNT_ID == "22816830226"

\* metric => ({...metric, aggregator: metric.aggregator || "unique",
\*             account_id: 22816830226, event_type: ..., scope: ...,
\*             winning_direction: ...}) for a metric that is not null
MetricWithDefaults(metric) ==
    LET m1 == Spread(Obj(<<>>), metric)
        m2 == ObjSet(m1, "aggregator", Or(Get(metric, "aggregator"), Str("unique")))
        m3 == ObjSet(m2, "account_id", Num(ACCOUNT_ID))
        m4 == ObjSet(m3, "event_type", Or(Get(metric, "event_type"), Str("custom")))
        m5 == ObjSet(m4, "scope", Or(Get(metric, "scope"), Str("visitor")))
    IN  ObjSet(m5, "winning_direction",
               Or(Get(metric, "winning_direction"), Str("increasing")))

\* update_experiment, the revision that applies the metric defaults and the
\* account id.
updateExperiment(parameters, authData) ==
    LET experiment_id == Get(parameters, "experiment_id")
        metrics == Get(parameters, "metrics")
        otherFields == Rest(parameters, {"experiment_id", "metrics"})
        accessToken == accessTokenOf(authData)
        experimentId == ParseInt(JSString(experiment_id))
        base == Spread(Obj(<<Member("account_id", Num(ACCOUNT_ID))>>), otherFields)
        parsed == JSONParse(metrics.s)
        parsedMetrics == parsed.value
        requestBody ==
            IF Falsy(metrics) THEN base
            ELSE IF IsArray(parsedMetrics)
                 THEN ObjSet(base, "metrics",
                             Arr([i \in 1..Len(parsedMetrics.items) |->
                                     MetricWithDefaults(parsedMetrics.items[i])]))
                 ELSE ObjSet(base, "metrics", parsedMetrics)
    IN  IF MissingToken(accessToken) THEN Throw(<<AuthenticationRequired>>)
        ELSE IF IsNaN(experimentId)
        THEN Throw(<<"Invalid experiment_id: \"", JSString(experiment_id),
                     "\". Must be a valid integer.">>)
        ELSE IF ~Falsy(metrics) /\ ~parsed.ok
        THEN Throw(<<"Invalid metrics JSON: ", parsed.error>>)
        ELSE IF /\ ~Falsy(metrics)
                /\ IsArray(parsedMetrics)
                /\ \E i \in 1..Len(parsedMetrics.items) : Nullish(parsedMetrics.items[i])
        THEN Throw(<<"Invalid metrics JSON: ",
                     "Cannot read properties of null (reading 'aggregator')">>)
        ELSE CallFetch("https://api.optimizely.com/v2/experiments/" \o JSString(experimentId),
                       "PATCH", Bearer(accessToken), requestBody,
                       [id |-> JSString(experimentId)])

\* update_experiment, the revision of src/tools that forwards the parsed
\* metrics as they are.
updateExperimentPlain(parameters, authData) ==
    LET experiment_id == Get(parameters, "experiment_id")
        metrics == Get(parameters, "metrics")
        otherFields == Rest(parameters, {"experiment_id", "metrics"})
        accessToken == accessTokenOf(authData)
        experimentId == ParseInt(JSString(experiment_id))
        base == Spread(Obj(<<>>), otherFields)
        parsed == JSONParse(metrics.s)
        requestBody ==
            IF Falsy(metrics) THEN base ELSE ObjSet(base, "metrics", parsed.value)
    IN  IF MissingToken(accessToken) THEN Throw(<<AuthenticationRequired>>)
        ELSE IF IsNaN(experimentId)
        THEN Throw(<<"Invalid experiment_id: \"", JSString(experiment_id),
                     "\". Must be a valid integer.">>)
        ELSE IF ~Falsy(metrics) /\ ~parsed.ok
        THEN Throw(<<"Invalid metrics JSON: ", parsed.error>>)
        ELSE CallFetch("https://api.optimizely.com/v2/experiments/" \o JSString(experimentId),
                       "PATCH", Bearer(accessToken), requestBody,
                       [id |-> JSString(experimentId)])

\* A destructuring default: `k = d` takes d only when the property is undefined.
Default(v, d) == IF v = Undefined THEN d ELSE v

ProjectIdRequired ==
    "project_id is required. Either provide it as a parameter or ensure it's available in the context when running from Optimizely."

\* A resolution that read the explicit parameter before the auth data.
ParameterFirst(authData, paramProjectId) ==
    Or(paramProjectId,
       Or(OptGet(OptGet(authData, "context"), "project_id"),
          Or(OptGet(authData, "project_id"), OptGet(authData, "projectId"))))
\* authData?.context?.project_id || authData?.project_id ||
\* (authData as any)?.projectId || paramProjectId
projectIdStrOf(authData, paramProjectId) ==
    Or(OptGet(OptGet(authData, "context"), "project_id"),
       Or(OptGet(authData, "project_id"),
          Or(OptGet(authData, "projectId"), paramProjectId)))

\* authData?.context?.project_id || paramProjectId
projectIdOfContext(authData, paramProjectId) ==
    Or(OptGet(OptGet(authData, "context"), "project_id"), paramProjectId)

\* The variations used when none are supplied: a 50/50 traffic split.
DefaultVariations ==
    Arr(<<Obj(<<Member("name", Str("Original")), Member("weight", Num("5000")),
                Member("totalTraffic", Num("50")), Member("percentage", Num("50")),
                Member("actions", Arr(<<>>))>>),
          Obj(<<Member("name", Str("Variation #1")), Member("weight", Num("5000")),
                Member("totalTraffic", Num("50")), Member("percentage", Num("50")),
                Member("actions", Arr(<<>>))>>)>>)

\* The variations the older revisions use when none are supplied.
DefaultVariationsPlain ==
    Arr(<<Obj(<<Member("name", Str("Original")), Member("actions", Arr(<<>>))>>),
          Obj(<<Member("name", Str("Variation 1")), Member("actions", Arr(<<>>))>>)>>)

\* if (variations) { JSON.parse(variations) } else { defaults }
parsedVariationsOf(variations, defaults) ==
    IF Falsy(variations) THEN defaults ELSE JSONParse(variations.s).value

VariationsInvalid(variations) == ~Falsy(variations) /\ ~JSONParse(variations.s).ok

\* The url_targeting of the revision that also sends targeting conditions.
UrlTargetingWithConditions(edit_url) ==
    Obj(<<Member("edit_url", edit_url),
          Member("activation_type", Str("immediate")),
          Member("deactivation_enabled", Bool(FALSE)),
          Member("conditions",
                 Str(JSONStringify(
                        Arr(<<Str("and"),
                              Arr(<<Str("or"),
                                    Obj(<<Member("match_type", Str("simple")),
                                          Member("type", Str("url")),
                                          Member("value", edit_url)>>)>>)>>))))>>)

\* create_experiment, the revision that resolves the project id through the
\* alternate keys and sends URL targeting conditions.
createExperiment(parameters, authData) ==
    LET paramProjectId == Get(parameters, "project_id")
        name == Get(parameters, "name")
        description == Get(parameters, "description")
        edit_url == Get(parameters, "edit_url")
        status == Default(Get(parameters, "status"), Str("not_started"))
        type == Default(Get(parameters, "type"), Str("a/b"))
        variations == Get(parameters, "variations")
        accessToken == accessTokenOf(authData)
        projectIdStr == projectIdStrOf(authData, paramProjectId)
        project_id == ParseInt(JSString(projectIdStr))
        body == Obj(<<Member("project_id", project_id), Member("name", name),
                      Member("description", description), Member("status", status),
                      Member("type", type),
                      Member("variations", parsedVariationsOf(variations, DefaultVariations))>>)
        requestBody ==
            IF Falsy(edit_url) THEN body
            ELSE ObjSet(body, "url_targeting", UrlTargetingWithConditions(edit_url))
    IN  IF MissingToken(accessToken) THEN Throw(<<AuthenticationRequired>>)
        ELSE IF Falsy(projectIdStr)
        THEN Throw(<<ProjectIdRequired, " AuthData structure: ">>
                   \o (IF authData = Undefined THEN <<"undefined">>
                       ELSE StringifyPieces(authData, "  ", "")))
        ELSE IF IsNaN(project_id)
        THEN Throw(<<"Invalid project_id: \"", JSString(projectIdStr),
                     "\". Must be a valid integer.">>)
        ELSE IF VariationsInvalid(variations)
        THEN Throw(<<"Invalid variations JSON: ", JSONParse(variations.s).error>>)
        ELSE CallFetch("https://api.optimizely.com/v2/experiments", "POST",
                       Bearer(accessToken), requestBody, [id |-> ""])

\* create_experiment, the revision that takes the project id from the context
\* or the parameter and sends url_targeting with the edit_url alone.
createExperimentUrl(parameters, authData) ==
    LET paramProjectId == Get(parameters, "project_id")
        name == Get(parameters, "name")
        description == Get(parameters, "description")
        edit_url == Get(parameters, "edit_url")
        status == Default(Get(parameters, "status"), Str("not_started"))
        type == Default(Get(parameters, "type"), Str("a/b"))
        variations == Get(parameters, "variations")
        accessToken == accessTokenOf(authData)
        projectIdStr == projectIdOfContext(authData, paramProjectId)
        project_id == ParseInt(JSString(projectIdStr))
        body == Obj(<<Member("project_id", project_id), Member("name", name),
                      Member("description", description), Member("status", status),
                      Member("type", type),
                      Member("variations", parsedVariationsOf(variations, DefaultVariations))>>)
        requestBody ==
            IF Falsy(edit_url) THEN body
            ELSE ObjSet(body, "url_targeting", Obj(<<Member("edit_url", edit_url)>>))
    IN  IF MissingToken(accessToken) THEN Throw(<<AuthenticationRequired>>)
        ELSE IF Falsy(projectIdStr) THEN Throw(<<ProjectIdRequired>>)
        ELSE IF IsNaN(project_id)
        THEN Throw(<<"Invalid project_id: \"", JSString(projectIdStr),
                     "\". Must be a valid integer.">>)
        ELSE IF VariationsInvalid(variations)
        THEN Throw(<<"Invalid variations JSON: ", JSONParse(variations.s).error>>)
        ELSE CallFetch("https://api.optimizely.com/v2/experiments", "POST",
                       Bearer(accessToken), requestBody, [id |-> ""])

\* create_experiment, the revision of src/tools: the project id is sent as
\* it was found and the experiment_name is sent as edit_url.
createExperimentTools(parameters, authData) ==
    LET paramProjectId == Get(parameters, "project_id")
        description == Get(parameters, "description")
        experiment_name == Get(parameters, "experiment_name")
        status == Default(Get(parameters, "status"), Str("not_started"))
        type == Default(Get(parameters, "type"), Str("ab"))
        variations == Get(parameters, "variations")
        accessToken == accessTokenOf(authData)
        project_id == projectIdOfContext(authData, paramProjectId)
        requestBody ==
            Obj(<<Member("project_id", project_id), Member("status", status),
                  Member("description", description), Member("type", type),
                  Member("edit_url", experiment_name),
                  Member("variations",
                         parsedVariationsOf(variations, DefaultVariationsPlain))>>)
    IN  IF MissingToken(accessToken) THEN Throw(<<AuthenticationRequired>>)
        ELSE IF Falsy(project_id) THEN Throw(<<ProjectIdRequired>>)
        ELSE IF VariationsInvalid(variations)
        THEN Throw(<<"Invalid variations JSON: ", JSONParse(variations.s).error>>)
        ELSE CallFetch("https://api.optimizely.com/v2/experiments", "POST",
                       Bearer(accessToken), requestBody, [id |-> ""])

\* create_experiment, the revision that takes the API token as a parameter
\* and has no authentication context.
createExperimentApiToken(parameters) ==
    LET project_id == Get(parameters, "project_id")
        api_token == Get(parameters, "api_token")
        description == Get(parameters, "description")
        experiment_name == Get(parameters, "experiment_name")
        status == Default(Get(parameters, "status"), Str("not_started"))
        type == Default(Get(parameters, "type"), Str("ab"))
        variations == Get(parameters, "variations")
        requestBody ==
            Obj(<<Member("project_id", project_id), Member("status", status),
                  Member("description", description), Member("type", type),
                  Member("edit_url", experiment_name),
                  Member("variations",
                         parsedVariationsOf(variations, DefaultVariationsPlain))>>)
    IN  IF VariationsInvalid(variations)
        THEN Throw(<<"Invalid variations JSON: ", JSONParse(variations.s).error>>)
        ELSE CallFetch("https://api.optimizely.com/v2/experiments", "POST",
                       Bearer(api_token), requestBody, [id |-> ""])

\* list_events
listEvents(parameters, authData) ==
    LET paramProjectId == Get(parameters, "project_id")
        include_classic == Default(Get(parameters, "include_classic"), Bool(FALSE))
        accessToken == accessTokenOf(authData)
        projectIdStr == projectIdStrOf(authData, paramProjectId)
        project_id == ParseInt(JSString(projectIdStr))
        queryParams ==
            "project_id=" \o JSString(project_id)
            \o (IF Falsy(include_classic) THEN "" ELSE "&include_classic=true")
    IN  IF MissingToken(accessToken) THEN Throw(<<AuthenticationRequired>>)
        ELSE IF Falsy(projectIdStr) THEN Throw(<<ProjectIdRequired>>)
        ELSE IF IsNaN(project_id)
        THEN Throw(<<"Invalid project_id: \"", JSString(projectIdStr),
                     "\". Must be a valid integer.">>)
        ELSE CallFetch("https://api.optimizely.com/v2/events?" \o queryParams, "GET",
                       Bearer(accessToken), Undefined, [id |-> JSString(project_id)])

(***************************************************************************)
(* Numbers of the results transformation.  A number is computed with as    *)
(* an integer count of ten-thousandths (Scale of them make 1); NumVal      *)
(* reads a literal, LitOf writes one.                                      *)
(***************************************************************************)
Scale == 100 * 100

NumVal(lit) ==
    CASE lit = "0" -> 0
      [] lit = "0.25" -> 2500
      [] lit = "0.5" -> 5000
      [] lit = "0.625" -> 6250
      [] lit = "0.75" -> 7500
      [] lit = "0.9" -> 9000
      [] lit = "0.95" -> 9500
      [] lit = "1" -> 10000
      [] lit = "1.5" -> 15000
      [] lit = "-0.25" -> -2500
      [] lit = "0.0004" -> 4
      [] lit = "0.6257" -> 6257

\* The decimal digits of a fraction f of Scale, trailing zeros dropped.
FracDigits(f) ==
    LET d1 == ToString(f \div 1000)
        d2 == ToString((f \div 100) % 10)
        d3 == ToString((f \div 10) % 10)
        d4 == ToString(f % 10)
    IN  IF f % 1000 = 0 THEN d1
        ELSE IF f % 100 = 0 THEN d1 \o d2
        ELSE IF f % 10 = 0 THEN d1 \o d2 \o d3
        ELSE d1 \o d2 \o d3 \o d4

Abs(x) == IF x < 0 THEN -x ELSE x

\* String(x) for the number x / Scale
LitOf(x) ==
    (IF x < 0 THEN "-" ELSE "")
    \o ToString(Abs(x) \div Scale)
    \o (IF Abs(x) % Scale = 0 THEN "" ELSE "." \o FracDigits(Abs(x) % Scale))

\* v * 100 for a value read from the results: NaN unless v is a number.
Times100(v) ==
    IF v.t = "number" /\ v.lit # "NaN" THEN Num(LitOf(NumVal(v.lit) * 100)) ELSE NaN

\* (x / Scale).toFixed(1)
ToFixed1(x) ==
    LET tenths == (Abs(x) * 10 + Scale \div 2) \div Scale
    IN  (IF x < 0 /\ tenths > 0 THEN "-" ELSE "")
        \o ToString(tenths \div 10) \o "." \o ToString(tenths % 10)

\* 1000 * 60 * 60 * 24
MS_PER_DAY == 1000 * 60 * 60 * 24

\* new Date(text): the time in milliseconds, counted from
\* 2025-10-01T00:00:00Z, and the date as toLocaleDateString("en-US",
\* {month: "short", day: "numeric", year: "numeric"}) prints it.
DateOf(v) ==
    CASE v = Str("2025-10-15T10:30:29Z") ->
            [valid |-> TRUE, ms |-> 1247429000, label |-> "Oct 15, 2025"]
      [] v = Str("2025-10-16T16:05:42Z") ->
            [valid |-> TRUE, ms |-> 1353942000, label |-> "Oct 16, 2025"]
      [] v = Str("2025-10-15T10:30:29.001Z") ->
            [valid |-> TRUE, ms |-> 1247429001, label |-> "Oct 15, 2025"]
      [] v = Str("2025-10-16T10:30:29Z") ->
            [valid |-> TRUE, ms |-> 1333829000, label |-> "Oct 16, 2025"]
      [] v = Str("2025-10-16T10:30:29.001Z") ->
            [valid |-> TRUE, ms |-> 1333829001, label |-> "Oct 16, 2025"]
      [] OTHER -> [valid |-> FALSE, ms |-> 0, label |-> "Invalid Date"]

\* Math.floor(a / b) for b > 0
FloorDiv(a, b) == a \div b

\* Math.ceil(a / b) for b > 0
CeilDiv(a, b) == -((-a) \div b)

TypeErrorOf(what) == [ok |-> FALSE, error |-> what]

\* Object.values(o) of an object
Values(o) == [i \in 1..Len(o.members) |-> o.members[i].v]

\* An entry that copies rate and significance as they are.
MetricVariationRaw(result) ==
    Obj(<<Member("name", Get(result, "name")),
          Member("value", Get(result, "rate")),
          Member("significance",
                 IF Falsy(Get(result, "lift")) THEN Num("0")
                 ELSE Get(Get(result, "lift"), "significance"))>>)

\* The entry of a metric's variations list for one result.
MetricVariation(result) ==
    Obj(<<Member("name", Get(result, "name")),
          Member("value", Times100(Get(result, "rate"))),
          Member("significance",
                 IF Falsy(Get(result, "lift")) THEN Num("0")
                 ELSE Times100(Get(Get(result, "lift"), "significance")))>>)

\* The first of the values instead of their maximum.
FirstVal(values) == NumVal(values[1].lit)

\* Math.max(...values) over numbers given by their literals (values is not
\* empty); NaN when one of them is not a number.
RECURSIVE MaxVal(_)
MaxVal(values) ==
    IF Len(values) = 1 THEN NumVal(values[1].lit)
    ELSE LET rest == MaxVal(Tail(values))
         IN  IF NumVal(values[1].lit) >= rest THEN NumVal(values[1].lit) ELSE rest

\* A headline lift that also prints a best lift of zero.
LiftStrFromZero(results) ==
    LET withLift == SelectSeq(Values(results), LAMBDA r : ~Falsy(Get(r, "lift")))
        liftValues == [i \in 1..Len(withLift) |-> Get(Get(withLift[i], "lift"), "value")]
        allNumbers == \A i \in 1..Len(liftValues) :
                         liftValues[i].t = "number" /\ liftValues[i].lit # "NaN"
    IN  IF Len(liftValues) = 0 \/ ~allNumbers THEN "N/A"
        ELSE IF MaxVal(liftValues) >= 0
        THEN "+" \o ToFixed1(MaxVal(liftValues) * 100) \o "%"
        ELSE "N/A"

\* The headline lift of a metric.
LiftStr(results) ==
    LET withLift == SelectSeq(Values(results), LAMBDA r : ~Falsy(Get(r, "lift")))
        liftValues == [i \in 1..Len(withLift) |-> Get(Get(withLift[i], "lift"), "value")]
        allNumbers == \A i \in 1..Len(liftValues) :
                         liftValues[i].t = "number" /\ liftValues[i].lit # "NaN"
    IN  IF Len(liftValues) = 0 \/ ~allNumbers THEN "N/A"
        ELSE IF MaxVal(liftValues) > 0
        THEN "+" \o ToFixed1(MaxVal(liftValues) * 100) \o "%"
        ELSE "N/A"

\* The TypeError one metric's transformation throws, "" when it throws none.
MetricTypeError(metric) ==
    IF Nullish(metric) THEN "Cannot read properties of null (reading 'results')"
    ELSE IF Nullish(Get(metric, "results"))
    THEN "Cannot convert undefined or null to object"
    ELSE IF \E i \in 1..Len(Get(metric, "results").members) :
                Nullish(Get(metric, "results").members[i].v)
    THEN "Cannot read properties of null (reading 'name')"
    ELSE ""

TransformMetric(metric) ==
    LET results == Get(metric, "results")
    IN  Obj(<<Member("name", Get(metric, "name")),
              Member("lift", Str(LiftStr(results))),
              Member("variations",
                     Arr([i \in 1..Len(results.members) |->
                             MetricVariation(results.members[i].v)]))>>)

ReachVariation(variation) ==
    Obj(<<Member("name", Get(variation, "name")),
          Member("sampleSize", Get(variation, "count")),
          Member("description",
                 IF Falsy(Get(variation, "is_baseline")) THEN Str("Treatment variation")
                 ELSE Str("Original experience (Control)"))>>)

\* The payload's separate confidence_threshold field.
ConfidenceThresholdOf(resultsJson) == Get(resultsJson, "confidence_threshold")

\* resultsJson.stats_config.confidence_level
ConfidenceLevelOf(resultsJson) ==
    Get(Get(resultsJson, "stats_config"), "confidence_level")

\* transformOptimizelyResults(resultsJson): the report fields, or the
\* TypeError an unguarded property access throws.
transformOptimizelyResults(resultsJson) ==
    LET startDate == DateOf(Get(resultsJson, "start_time"))
        endDate == DateOf(Get(resultsJson, "end_time"))
        durationDays ==
            IF startDate.valid /\ endDate.valid
            THEN ToString(CeilDiv(endDate.ms - startDate.ms, MS_PER_DAY))
            ELSE "NaN"
        metrics == Get(resultsJson, "metrics")
        reach == Get(resultsJson, "reach")
        stats_config == Get(resultsJson, "stats_config")
        failing == {i \in 1..Len(metrics.items) : MetricTypeError(metrics.items[i]) # ""}
        first == CHOOSE i \in failing : \A j \in failing : i <= j
    IN  IF Nullish(resultsJson)
        THEN TypeErrorOf("Cannot read properties of null (reading 'start_time')")
        ELSE IF Nullish(metrics)
        THEN TypeErrorOf("Cannot read properties of undefined (reading 'map')")
        ELSE IF ~IsArray(metrics)
        THEN TypeErrorOf("resultsJson.metrics.map is not a function")
        ELSE IF failing # {}
        THEN TypeErrorOf(MetricTypeError(metrics.items[first]))
        ELSE IF Nullish(reach)
        THEN TypeErrorOf("Cannot read properties of undefined (reading 'variations')")
        ELSE IF Nullish(Get(reach, "variations"))
        THEN TypeErrorOf("Cannot convert undefined or null to object")
        ELSE IF \E i \in 1..Len(Get(reach, "variations").members) :
                    Nullish(Get(reach, "variations").members[i].v)
        THEN TypeErrorOf("Cannot read properties of null (reading 'name')")
        ELSE IF Nullish(stats_config)
        THEN TypeErrorOf("Cannot read properties of undefined (reading 'confidence_level')")
        ELSE [ok |-> TRUE,
              value |->
                Obj(<<Member("experimentId", Str(JSString(Get(resultsJson, "experiment_id")))),
                      Member("dateRange", Str(startDate.label \o " - " \o endDate.label)),
                      Member("duration", Str(durationDays \o " days")),
                      Member("sampleSize", Get(reach, "total_count")),
                      Member("confidenceLevel",
                             Times100(ConfidenceLevelOf(resultsJson))),
                      Member("metrics",
                             Arr([i \in 1..Len(metrics.items) |->
                                     TransformMetric(metrics.items[i])])),
                      Member("variations",
                             Arr([i \in 1..Len(Get(reach, "variations").members) |->
                                     ReachVariation(Get(reach, "variations").members[i].v)]))>>)]

DefaultActions ==
    Arr(<<Str("Review detailed results in the dashboard"),
          Str("Plan follow-up experiments"),
          Str("Document learnings for future tests")>>)

\* actionsStr.split(",").map((a) => a.trim())
SplitActions(actionsStr) ==
    LET pieces == SplitComma(CharsOf(actionsStr), <<>>)
    IN  Arr([i \in 1..Len(pieces) |-> Str(StrOf(Trim(pieces[i])))])

\* A parsing that split every actions string on commas.
NeverJson(actionsStr) == FALSE
\* if (actionsStr.startsWith("["))
LooksLikeJson(actionsStr) == StartsWith(actionsStr, "[")

\* The parsing of a supplied actions string: the list, or the error thrown.
ParseActions(actionsStr) ==
    IF LooksLikeJson(actionsStr) THEN JSONParse(actionsStr)
    ELSE ParseOk(SplitActions(actionsStr))

\* A recommendation whose fields are defaulted together, once the status is
\* absent.
DefaultedTogether(status, title, description) ==
    IF Falsy(status)
    THEN Obj(<<Member("status", Str("Under Review")),
               Member("title", Str("Results require further analysis")),
               Member("description", Str("Based on the experiment results, further analysis is recommended before making a final decision."))>>)
    ELSE Obj(<<Member("status", status), Member("title", title),
               Member("description", description)>>)
\* recommendation: { status: recommendationStatus || "Under Review", ... }
RecommendationOf(status, title, description) ==
    Obj(<<Member("status", Or(status, Str("Under Review"))),
          Member("title", Or(title, Str("Results require further analysis"))),
          Member("description",
                 Or(description,
                    Str("Based on the experiment results, further analysis is recommended before making a final decision.")))>>)

\* A handler that forwards its parameters to the report service unchecked.
forwardUnchecked(parameters) ==
    CallFetch("https://mjjlumqjnsqkgforfhdw.supabase.co/functions/v1/generate-report",
              "POST", "", parameters, [id |-> ""])

\* generate_experiment_report
generateExperimentReport(parameters) ==
    LET recipientEmail == Get(parameters, "recipientEmail")
        experimentName == Get(parameters, "experimentName")
        optimizelyResultsJson == Get(parameters, "optimizelyResultsJson")
        hypothesis == Get(parameters, "hypothesis")
        recommendationStatus == Get(parameters, "recommendationStatus")
        recommendationTitle == Get(parameters, "recommendationTitle")
        recommendationDescription == Get(parameters, "recommendationDescription")
        actionsStr == Get(parameters, "actions")
        resultsData == JSONParse(optimizelyResultsJson.s)
        transformed == transformOptimizelyResults(resultsData.value)
        transformedData == transformed.value
        parsedActions == ParseActions(actionsStr.s)
        actions == IF Falsy(actionsStr) THEN DefaultActions ELSE parsedActions.value
        experimentData ==
            Obj(<<Member("experimentId", Get(transformedData, "experimentId")),
                  Member("experimentName", experimentName),
                  Member("hypothesis", Or(hypothesis, Str("No hypothesis provided"))),
                  Member("duration", Get(transformedData, "duration")),
                  Member("dateRange", Get(transformedData, "dateRange")),
                  Member("sampleSize", Get(transformedData, "sampleSize")),
                  Member("confidenceLevel", Get(transformedData, "confidenceLevel")),
                  Member("metrics", Get(transformedData, "metrics")),
                  Member("variations", Get(transformedData, "variations")),
                  Member("recommendation",
                         RecommendationOf(recommendationStatus, recommendationTitle,
                                          recommendationDescription)),
                  Member("actions", actions)>>)
        requestBody == Obj(<<Member("recipientEmail", recipientEmail),
                             Member("experimentData", experimentData)>>)
    IN  IF Falsy(recipientEmail) \/ Falsy(experimentName) \/ Falsy(optimizelyResultsJson)
        THEN Throw(<<"recipientEmail, experimentName, and optimizelyResultsJson are required fields">>)
        ELSE IF ~resultsData.ok
        THEN Throw(<<"Invalid Optimizely results JSON: ", resultsData.error>>)
        ELSE IF ~transformed.ok THEN Throw(<<transformed.error>>)
        ELSE IF ~Falsy(actionsStr) /\ ~parsedActions.ok
        THEN Throw(<<"Invalid actions format: ", parsedActions.error>>)
        ELSE CallFetch("https://mjjlumqjnsqkgforfhdw.supabase.co/functions/v1/generate-report",
                       "POST", "", requestBody, [id |-> ""])

(***************************************************************************)
(* The tools.  The revisions of one tool share its registered name.        *)
(***************************************************************************)
Tools ==
    {"update_experiment", "update_experiment.plain",
     "create_experiment", "create_experiment.url", "create_experiment.tools",
     "create_experiment.api_token", "list_events", "generate_experiment_report"}

UpdateTools == {"update_experiment", "update_experiment.plain"}

CreateTools ==
    {"create_experiment", "create_experiment.url", "create_experiment.tools",
     "create_experiment.api_token"}

\* The tools registered with authRequirements: they are handed authData.
AuthenticatedTools ==
    {"update_experiment", "update_experiment.plain", "create_experiment",
     "create_experiment.url", "create_experiment.tools", "list_events"}

\* The handler's synchronous code up to its first await.
Handler(tool, parameters, authData) ==
    CASE tool = "update_experiment" -> updateExperiment(parameters, authData)
      [] tool = "update_experiment.plain" -> updateExperimentPlain(parameters, authData)
      [] tool = "create_experiment" -> createExperiment(parameters, authData)
      [] tool = "create_experiment.url" -> createExperimentUrl(parameters, authData)
      [] tool = "create_experiment.tools" -> createExperimentTools(parameters, authData)
      [] tool = "create_experiment.api_token" -> createExperimentApiToken(parameters)
      [] tool = "list_events" -> listEvents(parameters, authData)
      [] tool = "generate_experiment_report" -> generateExperimentReport(parameters)

\* The prefix the handler's catch block puts before the message it re-throws.
WrapPrefix(tool) ==
    CASE tool \in UpdateTools -> "Failed to update Optimizely experiment: "
      [] tool \in CreateTools -> "Failed to create Optimizely experiment: "
      [] tool = "list_events" -> "Failed to list Optimizely events: "
      [] tool = "generate_experiment_report" -> "Failed to generate experiment report: "

\* The opening of the error thrown for a response that is not ok.
StatusPrefix(tool) ==
    CASE tool \in UpdateTools -> "Failed to update experiment: "
      [] tool \in CreateTools -> "Failed to create experiment: "
      [] tool = "list_events" -> "Failed to list events: "
      [] tool = "generate_experiment_report" -> "Failed to generate report: "

\* A handler without the catch block.
Uncaught(tool, step) == step
\* catch (error) { throw new Error(`<prefix>${error.message}`) } around the
\* code from fetch on.
Caught(tool, step) ==
    IF step.k = "throw" THEN Throw(<<WrapPrefix(tool)>> \o step.message) ELSE step

\* A handler that sent the request again after a rejected fetch.
RetryFetch(tool, request, locals, error) ==
    [k |-> "fetch", request |-> request, locals |-> locals]
\* The fetch promise rejects (DNS, TLS, connection reset): the catch block
\* re-throws.
AfterFetchRejected(tool, request, locals, error) == Caught(tool, Throw(<<error>>))

\* contentType && contentType.includes("application/json"), over the
\* content-type headers the model's responses carry ("" is a response
\* without the header).
JsonContentTypes == {"application/json", "application/json; charset=utf-8"}

IncludesJson(contentType) == contentType \in JsonContentTypes

\* A handler that takes the body as already read when fetch resolves.
NoReader(response) == "done"

\* Which body reader the handler awaits first.
ReaderFor(response) ==
    IF response.contentType # "" /\ IncludesJson(response.contentType)
    THEN "reading_json" ELSE "reading_text"

\* response.ok
Ok(response) == response.status >= 200 /\ response.status <= 299

\* typeof responseBody === "string" ? responseBody : JSON.stringify(responseBody)
BodyString(responseBody) ==
    IF responseBody.t = "string" THEN responseBody.s ELSE JSONStringify(responseBody)

\* The Error thrown when the response is not ok.
StatusError(tool, response, responseBody) ==
    Throw(<<StatusPrefix(tool), ToString(response.status), " ", response.statusText,
            ". ", BodyString(responseBody)>>)

ReportPageBase ==
    "https://id-preview--7eb40827-8f66-4c20-a834-b5cfbf929d7e.lovable.app/report/"

\* The value the handler returns for a response that is ok; reading a
\* property of a null body throws.
ResultOf(tool, locals, response, responseBody) ==
    CASE tool \in UpdateTools ->
            Return(Obj(<<Member("success", Bool(TRUE)),
                         Member("status", Num(ToString(response.status))),
                         Member("experiment", responseBody),
                         Member("message",
                                Str("Successfully updated experiment " \o locals.id))>>))
      [] tool \in CreateTools ->
            IF Nullish(responseBody)
            THEN Throw(<<"Cannot read properties of null (reading 'id')">>)
            ELSE Return(Obj(<<Member("success", Bool(TRUE)),
                              Member("status", Num(ToString(response.status))),
                              Member("experiment", responseBody),
                              Member("message",
                                     Str("Experiment created successfully with ID: "
                                         \o JSString(Or(Get(responseBody, "id"),
                                                        Str("unknown")))))>>))
      [] tool = "list_events" ->
            LET count == IF IsArray(responseBody)
                         THEN ToString(Len(responseBody.items)) ELSE "0"
            IN  Return(Obj(<<Member("success", Bool(TRUE)),
                             Member("status", Num(ToString(response.status))),
                             Member("events", responseBody),
                             Member("count", Num(count)),
                             Member("message",
                                    Str("Successfully retrieved " \o count
                                        \o " events for project " \o locals.id))>>))
      [] tool = "generate_experiment_report" ->
            IF Nullish(responseBody)
            THEN Throw(<<"Cannot destructure property 'reportId' of 'responseBody' as it is null.">>)
            ELSE Return(Obj(<<Member("success", Bool(TRUE)),
                              Member("reportId", Get(responseBody, "reportId")),
                              Member("pdfUrl", Get(responseBody, "pdfUrl")),
                              Member("reportPageUrl",
                                     Str(ReportPageBase
                                         \o JSString(Get(responseBody, "reportId")))),
                              Member("message", Get(responseBody, "message")),
                              Member("fullResponse", responseBody)>>))

\* A handler that dispatches again when the status is not a success.
RetryOnStatus(tool, locals, response, responseBody) ==
    IF ~Ok(response)
    THEN [k |-> "fetch", request |-> [retryOf |-> response.status], locals |-> locals]
    ELSE Caught(tool, ResultOf(tool, locals, response, responseBody))

\* The handler's code after the body has been read: the status check, then
\* the result, all inside the try block.
Finish(tool, locals, response, responseBody) ==
    Caught(tool, IF ~Ok(response) THEN StatusError(tool, response, responseBody)
                 ELSE ResultOf(tool, locals, response, responseBody))

\* await response.json() settles: the parsed value, or (catch) the handler
\* goes on to await response.text().
AfterJson(tool, locals, response) ==
    IF JSONParse(response.bodyText).ok
    THEN Finish(tool, locals, response, JSONParse(response.bodyText).value)
    ELSE [k |-> "read", reader |-> "reading_text"]

\* await response.text() settles.  A body that response.json() has already
\* read is unusable and text() rejects with a TypeError; a response without
\* a body can be read again and gives "".
AfterText(tool, locals, response, bodyUsed) ==
    IF bodyUsed /\ ~response.bodyNull
    THEN Caught(tool, Throw(<<"Body is unusable">>))
    ELSE Finish(tool, locals, response, Str(response.bodyText))

(***************************************************************************)
(* The inputs: the parameters and the authentication data an invocation    *)
(* is given, and the responses the remote end gives.                       *)
(***************************************************************************)
Credentials(token) == Member("credentials", Obj(<<Member("access_token", token)>>))

Context(projectId) == Member("context", Obj(<<Member("project_id", projectId)>>))

AuthDatas ==
    {Undefined,
     Obj(<<>>),
     Obj(<<Credentials(Str(""))>>),
     Obj(<<Context(Str("678"))>>),
     Obj(<<Credentials(Str("tok-A"))>>),
     Obj(<<Credentials(Str("tok-A")), Context(Str("678"))>>),
     Obj(<<Credentials(Str("tok-A")), Context(Str("abc"))>>),
     Obj(<<Credentials(Str("tok-A")), Member("context", Obj(<<>>)),
           Member("project_id", Str("910"))>>),
     Obj(<<Credentials(Str("tok-A")), Member("projectId", Str("42"))>>),
     Obj(<<Credentials(Str("tok-A")), Context(Str("678")),
           Member("project_id", Str("910")), Member("projectId", Str("42"))>>)}

\* The authentication data that differ in the access token alone.
TokenAuthDatas ==
    {Undefined, Obj(<<>>), Obj(<<Credentials(Str(""))>>), Obj(<<Credentials(Str("tok-A"))>>)}

\* An optional parameter: no member when the value is undefined.
Opt(k, v) == IF v = Undefined THEN <<>> ELSE <<Member(k, v)>>

UpdateParameters ==
    {Obj(Opt("experiment_id", id) \o Opt("metrics", m) \o other) :
        id \in {Undefined, Str("12345"), Str("abc"), Str("12abc"), Str("007")},
        m \in {Undefined, Str(""), Str(MetricsMinimal), Str(MetricsFull), Str(MetricsTwo),
               Str(MetricsEmptyAggregator), Str(MetricsObject), Str(MetricsNullElement),
               Str(MetricsMalformed)},
        other \in {<<>>, <<Member("name", Str("Renamed"))>>,
                   <<Member("account_id", Num("99"))>>}}

ProjectIdInputs == {Undefined, Str(""), Str("12345"), Str("12abc"), Str("abc")}

\* The parameters of the create_experiment revisions that take a name.
CreateProfiles ==
    {<<>>,
     <<Member("name", Str("Hero test"))>>,
     <<Member("name", Str("Hero test")), Member("description", Str("Bigger hero")),
       Member("edit_url", Str("https://example.com/home")),
       Member("status", Str("running")), Member("type", Str("multivariate")),
       Member("variations", Str(VariationsCustom))>>,
     <<Member("name", Str("Hero test")),
       Member("edit_url", Str("https://example.com/home"))>>,
     <<Member("name", Str("Hero test")), Member("status", Str("paused"))>>,
     <<Member("name", Str("Hero test")), Member("type", Str("multivariate"))>>,
     <<Member("name", Str("Hero test")), Member("variations", Str(VariationsCustom))>>,
     <<Member("name", Str("Hero test")), Member("edit_url", Str("")),
       Member("variations", Str(""))>>,
     <<Member("name", Str("Hero test")), Member("variations", Str(VariationsMalformed))>>}

\* The parameters of the create_experiment revisions that take an
\* experiment_name.
CreateProfilesPlain ==
    {<<>>,
     <<Member("description", Str("Bigger hero")), Member("experiment_name", Str("hero"))>>,
     <<Member("description", Str("Bigger hero")), Member("experiment_name", Str("hero")),
       Member("status", Str("running")), Member("type", Str("multivariate")),
       Member("variations", Str(VariationsCustom))>>,
     <<Member("description", Str("Bigger hero")), Member("experiment_name", Str("hero")),
       Member("variations", Str(VariationsMalformed))>>}

ActionsInputs ==
    {Undefined, Str(""), Str("A, B, C"), Str("A"), Str(" A ,,B "), Str(ActionsJson),
     Str(ActionsJsonUnclosed), Str(ActionsBracketWords), Str(" [\"A\"]")}

\* The optional fields of a report other than the actions.
ReportOptionals ==
    {<<>>,
     <<Member("hypothesis", Str("Bigger is better")),
       Member("recommendationStatus", Str("Winner"))>>,
     <<Member("recommendationTitle", Str("Ship it"))>>,
     <<Member("recommendationDescription", Str("B wins on clicks"))>>,
     <<Member("recommendationStatus", Str("Winner")),
       Member("recommendationTitle", Str("Ship it")),
       Member("recommendationDescription", Str("B wins on clicks"))>>}

ReportParameters ==
    {Obj(Opt("recipientEmail", email) \o Opt("experimentName", name)
         \o Opt("optimizelyResultsJson", results) \o Opt("actions", actions) \o optional) :
        email \in {Undefined, Str("analyst@example.com")},
        name \in {Undefined, Str("Hero test")},
        results \in {Undefined, Str(ResultsValid), Str(ResultsNoMetrics), Str(ResultsMalformed),
                     Str(BodyNull)},
        actions \in ActionsInputs,
        optional \in ReportOptionals}
    \cup {Obj(<<Member("recipientEmail", Str("analyst@example.com")),
                 Member("experimentName", Str("Hero test")),
                 Member("optimizelyResultsJson", Str(text))>>) :
             text \in DOMAIN ResultsByText}
    \cup {Obj(<<Member("recipientEmail", Str("analyst@example.com")),
                 Member("experimentName", Str("Hero test")),
                 Member("supabaseApiKey", Str("anon-key-1")),
                 Member("optimizelyResultsJson", Str(ResultsValid))>>)}

ParametersOf(tool) ==
    CASE tool \in UpdateTools -> UpdateParameters
      [] tool \in {"create_experiment", "create_experiment.url"} ->
            {Obj(Opt("project_id", id) \o profile) :
                id \in ProjectIdInputs, profile \in CreateProfiles}
      [] tool = "create_experiment.tools" ->
            {Obj(Opt("project_id", id) \o profile) :
                id \in ProjectIdInputs, profile \in CreateProfilesPlain}
      [] tool = "create_experiment.api_token" ->
            {Obj(Opt("project_id", id) \o Opt("api_token", token) \o profile) :
                id \in ProjectIdInputs, token \in {Undefined, Str("pat-1")},
                profile \in CreateProfilesPlain}
      [] tool = "list_events" ->
            {Obj(Opt("project_id", id) \o Opt("include_classic", classic)) :
                id \in ProjectIdInputs, classic \in {Undefined, Bool(TRUE), Bool(FALSE)}}
      [] tool = "generate_experiment_report" -> ReportParameters

AuthDataOf(tool) ==
    CASE tool \in UpdateTools -> TokenAuthDatas
      [] tool \in AuthenticatedTools \ UpdateTools -> AuthDatas
      [] OTHER -> {Undefined}

Response(status, statusText, contentType, bodyText, bodyNull) ==
    [status |-> status, statusText |-> statusText, contentType |-> contentType,
     bodyText |-> bodyText, bodyNull |-> bodyNull]

Responses ==
    {Response(200, "OK", "application/json", BodyExperiment, FALSE),
     Response(200, "OK", "application/json; charset=utf-8", BodyEvents, FALSE),
     Response(200, "OK", "application/json", BodyReport, FALSE),
     Response(200, "OK", "application/json", BodyNull, FALSE),
     Response(200, "OK", "text/plain", BodyPlain, FALSE),
     Response(200, "OK", "application/json", BodyPlain, FALSE),
     Response(204, "No Content", "application/json", "", TRUE),
     Response(401, "Unauthorized", "", "denied", FALSE),
     Response(404, "Not Found", "application/json", BodyErrorSpaced, FALSE),
     Response(500, "Internal Server Error", "text/html", BodyHtml, FALSE),
     Response(502, "Bad Gateway", "application/json", BodyHtml, FALSE),
     Response(503, "Service Unavailable", "application/json", "", FALSE)}

\* The messages of the errors fetch rejects with.
NetworkErrors == {"fetch failed"}

(***************************************************************************)
(* The state: one invocation at a time.                                    *)
(***************************************************************************)
MaxInvocations == 2

\* The invocations that run side by side.
MaxCalls == 2

Calls == 1..MaxCalls

VARIABLES
    pc,          \* where the invocation stands: "idle", "fetching",
                 \* "reading_json", "reading_text" or "done"
    tool,        \* the tool invoked
    parameters,  \* its parameters
    authData,    \* the authentication data handed to it
    sent,        \* the requests the invocation has handed to fetch
    locals,      \* the handler's variables that outlive the fetch
    response,    \* the response fetch resolved with
    bodyUsed,    \* whether the response's body has been read
    outcome,     \* what the invocation ended in
    served,      \* the invocations completed before this one
    calls        \* the invocations in flight side by side, each with its own
                 \* pc, tool, parameters, authData, sent, locals, response,
                 \* bodyUsed and outcome

vars ==
    <<pc, tool, parameters, authData, sent, locals, response, bodyUsed, outcome, served,
      calls>>

NoResponse == Response(0, "", "", "", TRUE)

NoOutcome == [kind |-> "none"]

\* An invocation that has not been called yet.
IdleCall ==
    [pc |-> "idle", tool |-> "", parameters |-> Undefined, authData |-> Undefined,
     sent |-> <<>>, locals |-> [id |-> ""], response |-> NoResponse, bodyUsed |-> FALSE,
     failure |-> "", outcome |-> NoOutcome]

Init ==
    /\ pc = "idle"
    /\ tool = ""
    /\ parameters = Undefined
    /\ authData = Undefined
    /\ sent = <<>>
    /\ locals = [id |-> ""]
    /\ response = NoResponse
    /\ bodyUsed = FALSE
    /\ outcome = NoOutcome
    /\ served = 0
    /\ calls = [i \in Calls |-> IdleCall]

\* The handler runs on from a step of its code: it ends in an error or a
\* result, hands a request to fetch, or awaits a body reader.
Apply(step) ==
    /\ pc' = CASE step.k \in {"throw", "return"} -> "done"
               [] step.k = "fetch" -> "fetching"
               [] step.k = "read" -> step.reader
    /\ outcome' = CASE step.k = "throw" -> [kind |-> "error", message |-> step.message]
                    [] step.k = "return" -> [kind |-> "result", value |-> step.value]
                    [] OTHER -> outcome
    /\ sent' = IF step.k = "fetch" THEN Append(sent, step.request) ELSE sent
    /\ locals' = IF step.k = "fetch" THEN step.locals ELSE locals
    /\ calls' = calls

\* The framework calls a tool's handler, which runs to its first await.
Invoke ==
    /\ pc = "idle"
    /\ \E t \in Tools : \E p \in ParametersOf(t) : \E a \in AuthDataOf(t) :
          /\ tool' = t
          /\ parameters' = p
          /\ authData' = a
          /\ Apply(Handler(t, p, a))
    /\ UNCHANGED <<response, bodyUsed, served>>

\* fetch rejects.
FetchRejects ==
    /\ pc = "fetching"
    /\ \E error \in NetworkErrors :
          Apply(AfterFetchRejected(tool, sent[Len(sent)], locals, error))
    /\ UNCHANGED <<tool, parameters, authData, response, bodyUsed, served>>

\* fetch resolves with a response; the handler reads the headers and awaits
\* the body.
FetchResolves ==
    /\ pc = "fetching"
    /\ \E r \in Responses :
          /\ response' = r
          /\ Apply([k |-> "read", reader |-> ReaderFor(r)])
    /\ UNCHANGED <<tool, parameters, authData, bodyUsed, served>>

\* response.json() settles.
JsonSettles ==
    /\ pc = "reading_json"
    /\ bodyUsed' = TRUE
    /\ Apply(AfterJson(tool, locals, response))
    /\ UNCHANGED <<tool, parameters, authData, response, served>>

\* response.text() settles.
TextSettles ==
    /\ pc = "reading_text"
    /\ bodyUsed' = TRUE
    /\ Apply(AfterText(tool, locals, response, bodyUsed))
    /\ UNCHANGED <<tool, parameters, authData, response, served>>

\* The invocation is over and the framework is ready for the next one;
\* nothing of the finished invocation is kept.
Reset ==
    /\ pc = "done"
    /\ served + 1 < MaxInvocations
    /\ served' = served + 1
    /\ pc' = "idle"
    /\ tool' = ""
    /\ parameters' = Undefined
    /\ authData' = Undefined
    /\ sent' = <<>>
    /\ locals' = [id |-> ""]
    /\ response' = NoResponse
    /\ bodyUsed' = FALSE
    /\ outcome' = NoOutcome
    /\ calls' = calls

Next ==
    \/ Invoke
    \/ FetchRejects
    \/ FetchResolves
    \/ JsonSettles
    \/ TextSettles
    \/ Reset

Spec == Init /\ [][Next]_vars

TypeOK ==
    /\ pc \in {"idle", "fetching", "reading_json", "reading_text", "done"}
    /\ outcome.kind \in {"none", "error", "result"}
    /\ served \in 0..(MaxInvocations - 1)

(***************************************************************************)
(* Invocations side by side.  The framework calls a handler for every      *)
(* request it receives; each call has its own parameters, authentication   *)
(* data and local variables, and the event loop runs one call at a time    *)
(* from one await to the next.                                             *)
(***************************************************************************)
ParallelInvocations ==
    {<<"update_experiment",
       Obj(<<Member("experiment_id", Str("12345")), Member("name", Str("Renamed"))>>),
       Obj(<<Credentials(Str("tok-A"))>>)>>,
     <<"update_experiment",
       Obj(<<Member("experiment_id", Str("007"))>>),
       Obj(<<Credentials(Str("tok-A"))>>)>>,
     <<"list_events",
       Obj(<<Member("project_id", Str("12345"))>>),
       Obj(<<Credentials(Str("tok-A")), Context(Str("678"))>>)>>,
     <<"list_events", Obj(<<>>), Obj(<<>>)>>,
     <<"create_experiment",
       Obj(<<Member("project_id", Str("12345")), Member("name", Str("Hero test"))>>),
       Obj(<<Credentials(Str("tok-A"))>>)>>,
     <<"generate_experiment_report",
       Obj(<<Member("recipientEmail", Str("analyst@example.com")),
             Member("experimentName", Str("Hero test")),
             Member("optimizelyResultsJson", Str(ResultsValid))>>),
       Undefined>>}

ParallelResponses ==
    {Response(200, "OK", "application/json", BodyExperiment, FALSE),
     Response(200, "OK", "application/json", BodyPlain, FALSE),
     Response(404, "Not Found", "application/json", BodyErrorSpaced, FALSE)}

\* One call running on from a step of its handler's code.
ApplyTo(call, step) ==
    [call EXCEPT
        !.pc = CASE step.k \in {"throw", "return"} -> "done"
                 [] step.k = "fetch" -> "fetching"
                 [] step.k = "read" -> step.reader,
        !.outcome = CASE step.k = "throw" -> [kind |-> "error", message |-> step.message]
                      [] step.k = "return" -> [kind |-> "result", value |-> step.value]
                      [] OTHER -> @,
        !.sent = IF step.k = "fetch" THEN Append(@, step.request) ELSE @,
        !.locals = IF step.k = "fetch" THEN step.locals ELSE @]

\* Handlers that keep their variables in one place all calls write to.
StepShared(all, i, step) ==
    [j \in DOMAIN all |->
        IF j = i THEN ApplyTo(all[j], step)
        ELSE IF step.k = "fetch" THEN [all[j] EXCEPT !.locals = step.locals]
        ELSE all[j]]

\* Call i takes a step: its variables are the function's own, no other
\* call's state is read or written.
StepCall(all, i, step) == [all EXCEPT ![i] = ApplyTo(all[i], step)]

StartCall(i) ==
    /\ calls[i].pc = "idle"
    /\ \E invocation \in ParallelInvocations :
          calls' = StepCall([calls EXCEPT ![i].tool = invocation[1],
                                          ![i].parameters = invocation[2],
                                          ![i].authData = invocation[3]],
                            i, Handler(invocation[1], invocation[2], invocation[3]))
    /\ UNCHANGED <<pc, tool, parameters, authData, sent, locals, response, bodyUsed,
                   outcome, served>>

CallFetchRejects(i) ==
    /\ calls[i].pc = "fetching"
    /\ \E error \in NetworkErrors :
          calls' = StepCall([calls EXCEPT ![i].failure = error], i,
                            AfterFetchRejected(calls[i].tool,
                                               calls[i].sent[Len(calls[i].sent)],
                                               calls[i].locals, error))
    /\ UNCHANGED <<pc, tool, parameters, authData, sent, locals, response, bodyUsed,
                   outcome, served>>

CallFetchResolves(i) ==
    /\ calls[i].pc = "fetching"
    /\ \E r \in ParallelResponses :
          calls' = StepCall([calls EXCEPT ![i].response = r], i,
                            [k |-> "read", reader |-> ReaderFor(r)])
    /\ UNCHANGED <<pc, tool, parameters, authData, sent, locals, response, bodyUsed,
                   outcome, served>>

CallJsonSettles(i) ==
    /\ calls[i].pc = "reading_json"
    /\ calls' = StepCall([calls EXCEPT ![i].bodyUsed = TRUE], i,
                         AfterJson(calls[i].tool, calls[i].locals, calls[i].response))
    /\ UNCHANGED <<pc, tool, parameters, authData, sent, locals, response, bodyUsed,
                   outcome, served>>

CallTextSettles(i) ==
    /\ calls[i].pc = "reading_text"
    /\ calls' = StepCall([calls EXCEPT ![i].bodyUsed = TRUE], i,
                         AfterText(calls[i].tool, calls[i].locals, calls[i].response,
                                   calls[i].bodyUsed))
    /\ UNCHANGED <<pc, tool, parameters, authData, sent, locals, response, bodyUsed,
                   outcome, served>>

NextParallel ==
    \/ \E i \in Calls : StartCall(i)
    \/ \E i \in Calls : CallFetchRejects(i)
    \/ \E i \in Calls : CallFetchResolves(i)
    \/ \E i \in Calls : CallJsonSettles(i)
    \/ \E i \in Calls : CallTextSettles(i)

SpecParallel == Init /\ [][NextParallel]_vars

(***************************************************************************)
(* What an invocation's outcome and requests are checked against.          *)
(***************************************************************************)
Errored == pc = "done" /\ outcome.kind = "error"

Returned == pc = "done" /\ outcome.kind = "result"

\* The handler's code before the fetch let the invocation through.
PassedValidation == Handler(tool, parameters, authData).k = "fetch"

\* C1: an authenticated tool invoked without a readable access token ends in
\* the 'Authentication required' error and hands nothing to fetch, whatever
\* its other parameters are.
C1_AuthenticationRequired ==
    (pc # "idle" /\ tool \in AuthenticatedTools /\ Falsy(accessTokenOf(authData)))
        => /\ Errored
           /\ outcome.message = <<AuthenticationRequired>>
           /\ sent = <<>>

\* list_events without credentials and with a project id that is not a
\* number ends in the authentication error.
C1_Witness ==
    /\ Errored
    /\ tool = "list_events"
    /\ accessTokenOf(authData) = Undefined
    /\ Get(parameters, "project_id") = Str("abc")
    /\ outcome.message = <<AuthenticationRequired>>

\* C2: an invocation hands at most one request to fetch, and exactly one
\* when authentication, validation and parsing let it through.
C2_OneOutboundCall ==
    /\ Len(sent) <= 1
    /\ pc # "idle" => Len(sent) = (IF PassedValidation THEN 1 ELSE 0)

\* An invocation that got a response and returned a result made one call.
C2_Witness == Returned /\ Len(sent) = 1 /\ response.status = 200

\* The message carries the part.
Embeds(message, part) == \E i \in 1..Len(message) : message[i] = part

\* An invocation whose fetch resolved with a response.
Answered == pc = "done" /\ response # NoResponse

\* The response's body as an error message is to show it: the JSON text of
\* a JSON body, the text of any other body.
BodyShown(r) ==
    IF IncludesJson(r.contentType) /\ JSONParse(r.bodyText).ok
    THEN JSONStringify(JSONParse(r.bodyText).value)
    ELSE r.bodyText

\* C3: a response with a status outside 200..299 ends the invocation in an
\* error whose message carries the status code, the status text and the
\* response body (a JSON body stringified, a text body verbatim), and never
\* in a result.
C3_StatusErrorEmbedsResponse ==
    (Answered /\ ~Ok(response))
        => /\ Errored
           /\ Embeds(outcome.message, ToString(response.status))
           /\ Embeds(outcome.message, response.statusText)
           /\ Embeds(outcome.message, BodyShown(response))

\* The fields a tool's result is to have next to success.
ResultFields(t) ==
    CASE t \in UpdateTools \cup CreateTools -> {"experiment"}
      [] t = "list_events" -> {"events", "count"}
      [] t = "generate_experiment_report" -> {"reportId", "pdfUrl", "reportPageUrl"}

\* C4: every result a tool returns has success = true and the tool's
\* fields, whatever the content type and the shape of the body of the
\* response it was built from.
C4_ResultCarriesFields ==
    Returned
        => /\ Get(outcome.value, "success") = Bool(TRUE)
           /\ \A f \in ResultFields(tool) : Get(outcome.value, f) # Undefined

\* The project id in the request: the query parameter of list_events, the
\* project_id of the body of create_experiment.
ProjectIdSent ==
    IF tool = "list_events" THEN Num(locals.id) ELSE Get(sent[1].json, "project_id")

\* The first value of a sequence that is not empty; undefined if none is.
RECURSIVE FirstNonEmpty(_)
FirstNonEmpty(values) ==
    IF values = <<>> THEN Undefined
    ELSE IF ~Falsy(values[1]) THEN values[1]
    ELSE FirstNonEmpty(Tail(values))

\* The request's project id is the value v, sent raw or parsed.
SendsProjectId(v) == ProjectIdSent \in {v, ParseInt(JSString(v))}

ContextProjectId == OptGet(OptGet(authData, "context"), "project_id")

\* A tool that has a context to read the project id from has sent its
\* request.
ResolvesProjectId ==
    /\ tool \in (CreateTools \cup {"list_events"}) \cap AuthenticatedTools
    /\ pc # "idle"
    /\ Len(sent) = 1

\* C5 as stated: the project id create_experiment and list_events send is
\* the first non-empty of the explicit parameter, the context's project_id
\* and the alternate keys of the auth data, so the explicit parameter wins
\* over a context value.
C5_ExplicitParameterFirst ==
    ResolvesProjectId
        => SendsProjectId(FirstNonEmpty(<<Get(parameters, "project_id"), ContextProjectId,
                                          OptGet(authData, "project_id"),
                                          OptGet(authData, "projectId")>>))

\* The sources of the project id in the order a tool reads them.
ProjectIdSources(t) ==
    CASE t \in {"list_events", "create_experiment"} ->
            <<ContextProjectId, OptGet(authData, "project_id"),
              OptGet(authData, "projectId"), Get(parameters, "project_id")>>
      [] t \in {"create_experiment.url", "create_experiment.tools"} ->
            <<ContextProjectId, Get(parameters, "project_id")>>
      [] t = "create_experiment.api_token" -> <<Get(parameters, "project_id")>>

\* C5, amended: the project id sent is the first non-empty of the context's
\* project_id, then (list_events and the create_experiment revision that
\* reads them) the auth data's project_id and projectId, and last the
\* explicit parameter; the context value wins over an explicit parameter.
C5_ContextFirst ==
    ResolvesProjectId => SendsProjectId(FirstNonEmpty(ProjectIdSources(tool)))

\* list_events with the parameter "12345" and the context's "678" asks for
\* project 678.
C5_Witness ==
    /\ tool = "list_events"
    /\ pc = "fetching"
    /\ Get(parameters, "project_id") = Str("12345")
    /\ ContextProjectId = Str("678")
    /\ sent[1].url = "https://api.optimizely.com/v2/events?project_id=678"

\* The identifier string a tool parses: the experiment_id of
\* update_experiment, the resolved project id of the others.
RawIdentifier ==
    IF tool \in UpdateTools THEN Get(parameters, "experiment_id")
    ELSE FirstNonEmpty(ProjectIdSources(tool))

\* The identifier in the request: in the URL of update_experiment and
\* list_events, in the body of create_experiment.
IdentifierSent ==
    IF tool \in UpdateTools \cup {"list_events"} THEN Num(locals.id) ELSE ProjectIdSent

\* An invocation that got past authentication with an identifier to parse.
ParsesIdentifier ==
    /\ pc # "idle"
    /\ tool \in UpdateTools \cup CreateTools \cup {"list_events"}
    /\ tool \in AuthenticatedTools => ~Falsy(accessTokenOf(authData))
    /\ tool \in UpdateTools \/ ~Falsy(RawIdentifier)

\* C6: the numeric identifier of update_experiment, list_events and
\* create_experiment is parsed as an integer: a string that parses goes into
\* the request as that number, and a string that does not parse ends the
\* invocation in the 'Invalid ... Must be a valid integer' error naming the
\* raw value, with no request sent.
C6_IdentifierParsed ==
    ParsesIdentifier
        => IF IsNaN(ParseInt(JSString(RawIdentifier)))
           THEN /\ Errored
                /\ sent = <<>>
                /\ Embeds(outcome.message, JSString(RawIdentifier))
                /\ Embeds(outcome.message, "\". Must be a valid integer.")
           ELSE Len(sent) = 1 => IdentifierSent = ParseInt(JSString(RawIdentifier))

\* The report tool's code before the actions let the invocation through.
ReachesActions ==
    /\ tool = "generate_experiment_report"
    /\ pc # "idle"
    /\ ~Falsy(Get(parameters, "recipientEmail"))
    /\ ~Falsy(Get(parameters, "experimentName"))
    /\ ~Falsy(Get(parameters, "optimizelyResultsJson"))
    /\ JSONParse(Get(parameters, "optimizelyResultsJson").s).ok
    /\ transformOptimizelyResults(JSONParse(Get(parameters, "optimizelyResultsJson").s).value).ok
    /\ ~Falsy(Get(parameters, "actions"))

ActionsSent == Get(Get(sent[1].json, "experimentData"), "actions")

\* C7: a supplied (non-empty) actions string that begins with '[' is sent as
\* the array its JSON denotes, any other is split on commas with each piece
\* trimmed ("A, B, C" gives ["A","B","C"]); one that begins with '[' and is
\* not valid JSON ends the invocation in the 'Invalid actions format' error
\* with nothing sent.
C7_ActionsParsing ==
    ReachesActions
        => LET actionsStr == Get(parameters, "actions").s
           IN  /\ (CharsOf(actionsStr)[1] = "[" /\ JSONParse(actionsStr).ok)
                    => Len(sent) = 1 /\ ActionsSent = JSONParse(actionsStr).value
               /\ (CharsOf(actionsStr)[1] = "[" /\ ~JSONParse(actionsStr).ok)
                    => /\ Errored
                       /\ sent = <<>>
                       /\ outcome.message[1] = "Invalid actions format: "
               /\ CharsOf(actionsStr)[1] # "["
                    => Len(sent) = 1 /\ ActionsSent = SplitActions(actionsStr)
               /\ actionsStr = "A, B, C"
                    => ActionsSent = Arr(<<Str("A"), Str("B"), Str("C")>>)
               /\ actionsStr = " A ,,B "
                    => ActionsSent = Arr(<<Str("A"), Str(""), Str("B")>>)
               /\ actionsStr = ActionsJson => ActionsSent = Arr(<<Str("A"), Str("B")>>)

\* "A, B, C" is sent as the three actions A, B and C.
C7_Witness ==
    /\ ReachesActions
    /\ pc = "fetching"
    /\ Get(parameters, "actions") = Str("A, B, C")
    /\ ActionsSent = Arr(<<Str("A"), Str("B"), Str("C")>>)

\* update_experiment has sent a request for a metrics parameter whose JSON
\* is an array.
SendsMetricsArray ==
    /\ tool \in UpdateTools
    /\ pc # "idle"
    /\ Len(sent) = 1
    /\ ~Falsy(Get(parameters, "metrics"))
    /\ IsArray(JSONParse(Get(parameters, "metrics").s).value)

MetricsSupplied == JSONParse(Get(parameters, "metrics").s).value.items

MetricsSent == Get(sent[1].json, "metrics")

\* The value a field of a request is to have: the caller's where the caller
\* supplied one, the default where not.
SuppliedOr(supplied, k, default) ==
    IF Get(supplied, k) # Undefined THEN Get(supplied, k) ELSE default

\* C8: every element of a metrics array is sent with aggregator "unique",
\* scope "visitor", event_type "custom" and winning_direction "increasing"
\* where the caller left the field out, with the caller's value where not,
\* and with the fixed account id where the caller gave none.
C8_MetricDefaults ==
    SendsMetricsArray
        => /\ IsArray(MetricsSent)
           /\ Len(MetricsSent.items) = Len(MetricsSupplied)
           /\ \A i \in 1..Len(MetricsSupplied) :
                 LET given == MetricsSupplied[i]
                     metric == MetricsSent.items[i]
                 IN  /\ Get(metric, "aggregator") = SuppliedOr(given, "aggregator", Str("unique"))
                     /\ Get(metric, "scope") = SuppliedOr(given, "scope", Str("visitor"))
                     /\ Get(metric, "event_type") = SuppliedOr(given, "event_type", Str("custom"))
                     /\ Get(metric, "winning_direction")
                            = SuppliedOr(given, "winning_direction", Str("increasing"))
                     /\ Get(given, "account_id") = Undefined
                            => Get(metric, "account_id") = Num("22816830226")

\* update_experiment has sent a request.
SendsUpdate == tool \in UpdateTools /\ pc # "idle" /\ Len(sent) = 1

\* C9: the fixed account id is put into the top level of the request body
\* and into a metric only where the caller gave no account_id there; an
\* account_id the caller gave is sent unchanged.
C9_AccountIdWhenAbsent ==
    SendsUpdate
        => /\ Get(sent[1].json, "account_id")
                = SuppliedOr(parameters, "account_id", Num("22816830226"))
           /\ SendsMetricsArray
                => \A i \in 1..Len(MetricsSupplied) :
                      Get(MetricsSent.items[i], "account_id")
                          = SuppliedOr(MetricsSupplied[i], "account_id", Num("22816830226"))

\* create_experiment has sent a request; variations given as the empty
\* string are left aside.
SendsCreate ==
    /\ tool \in CreateTools
    /\ pc # "idle"
    /\ Len(sent) = 1
    /\ Get(parameters, "variations") # Str("")

\* The names and the weights of the variations of a request.
NamesAndWeights(variations) ==
    [i \in 1..Len(variations.items) |->
        <<Get(variations.items[i], "name"), Get(variations.items[i], "weight")>>]

\* C10: a create_experiment request has status "not_started", the A/B type
\* and the two variations "Original" and "Variation #1" of weight 5000 each
\* where the caller supplied no status, type or variations, and the
\* caller's value where one was supplied.
C10_CreateDefaults ==
    SendsCreate
        => LET body == sent[1].json
           IN  /\ Get(body, "status") = SuppliedOr(parameters, "status", Str("not_started"))
               /\ IF Get(parameters, "type") # Undefined
                  THEN Get(body, "type") = Get(parameters, "type")
                  ELSE Get(body, "type") \in {Str("a/b"), Str("ab")}
               /\ IF Get(parameters, "variations") # Undefined
                  THEN Get(body, "variations") = JSONParse(Get(parameters, "variations").s).value
                  ELSE NamesAndWeights(Get(body, "variations"))
                           = <<<<Str("Original"), Num("5000")>>,
                               <<Str("Variation #1"), Num("5000")>>>>

\* generate_experiment_report has sent its request.
SendsReport == tool = "generate_experiment_report" /\ pc # "idle" /\ Len(sent) = 1

RecommendationSent == Get(Get(sent[1].json, "experimentData"), "recommendation")

\* C11: each of recommendation.status, title and description is sent as
\* supplied, or as its own default when absent ("Under Review" for the
\* status) whatever the other two are; absent actions are sent as the three
\* default actions, in order.
C11_ReportDefaults ==
    SendsReport
        => /\ Get(RecommendationSent, "status")
                = SuppliedOr(parameters, "recommendationStatus", Str("Under Review"))
           /\ Get(RecommendationSent, "title")
                = SuppliedOr(parameters, "recommendationTitle",
                             Str("Results require further analysis"))
           /\ Get(RecommendationSent, "description")
                = SuppliedOr(parameters, "recommendationDescription",
                             Str("Based on the experiment results, further analysis is recommended before making a final decision."))
           /\ Get(parameters, "actions") = Undefined
                => ActionsSent = Arr(<<Str("Review detailed results in the dashboard"),
                                       Str("Plan follow-up experiments"),
                                       Str("Document learnings for future tests")>>)

\* A report asked for with the required fields alone is sent with the
\* status "Under Review" and the three default actions.
C11_Witness ==
    /\ SendsReport
    /\ Len(parameters.members) = 3
    /\ Get(RecommendationSent, "status") = Str("Under Review")
    /\ Len(ActionsSent.items) = 3
    /\ ActionsSent.items[1] = Str("Review detailed results in the dashboard")

\* The body the handler is to go on with: the parsed JSON of a JSON-labelled
\* body that parses, the raw text of any other body.
BodyRead(r) ==
    IF IncludesJson(r.contentType) /\ JSONParse(r.bodyText).ok
    THEN JSONParse(r.bodyText).value
    ELSE Str(r.bodyText)

\* C12: the response body is read as JSON when the content type names JSON
\* and as text otherwise, a JSON-labelled body that does not parse is taken
\* as its raw text, and the invocation ends as the status check and the
\* result construction decide for that body: the parse failure alone never
\* fails it.
C12_JsonThenTextFallback ==
    Answered
        => LET step == Finish(tool, locals, response, BodyRead(response))
           IN  IF step.k = "throw"
               THEN Errored /\ outcome.message = step.message
               ELSE Returned /\ outcome.value = step.value

\* The error raised for a response whose status is not a success.
UpstreamStatusError == Errored /\ Answered /\ ~Ok(response)

Wrapped == outcome.message[1] = WrapPrefix(tool)

\* C13 as stated: every error other than the upstream-status error, a
\* validation or parsing failure of the inputs as much as a transport
\* failure, carries the tool's prefix.
C13_EveryErrorWrapped == (Errored /\ ~UpstreamStatusError) => Wrapped

\* C13, amended: the errors raised from the dispatch on (a transport
\* failure, a failure while the response is read or the result is built,
\* and the upstream-status error too) carry the tool's prefix; the errors
\* raised before the dispatch (authentication, validation and parsing of
\* the inputs) reach the caller with their own message, without it.
C13_WrappedFromDispatchOn ==
    Errored
        => /\ Wrapped <=> Len(sent) = 1
           /\ sent = <<>> => outcome.message = Handler(tool, parameters, authData).message

\* A transport failure of create_experiment reaches the caller with the
\* prefix of create_experiment.
C13_Witness ==
    /\ Errored
    /\ tool = "create_experiment.tools"
    /\ response = NoResponse
    /\ outcome.message = <<"Failed to create Optimizely experiment: ", "fetch failed">>

\* The parameters a tool is registered with as required.
RequiredParameters(t) ==
    CASE t \in UpdateTools -> {"experiment_id"}
      [] t \in {"create_experiment", "create_experiment.url"} -> {"name"}
      [] t = "create_experiment.tools" -> {"description", "experiment_name"}
      [] t = "create_experiment.api_token" ->
            {"project_id", "api_token", "description", "experiment_name"}
      [] t = "list_events" -> {}
      [] t = "generate_experiment_report" ->
            {"recipientEmail", "experimentName", "optimizelyResultsJson"}

MissingParameters == {f \in RequiredParameters(tool) : Get(parameters, f) = Undefined}

\* The fields an error message names.
FieldsNamed(message) ==
    IF message[1] = "recipientEmail, experimentName, and optimizelyResultsJson are required fields"
    THEN {"recipientEmail", "experimentName", "optimizelyResultsJson"}
    ELSE IF message[1] = "Invalid experiment_id: \"" THEN {"experiment_id"}
    ELSE IF message[1] \in {ProjectIdRequired, "Invalid project_id: \""} THEN {"project_id"}
    ELSE {}

\* C14: an invocation that lacks a required parameter (and has its access
\* token, where one is needed) ends before the dispatch in an error that
\* names the missing fields, with nothing sent.
C14_RequiredParametersChecked ==
    (/\ pc # "idle"
     /\ tool \in AuthenticatedTools => ~Falsy(accessTokenOf(authData))
     /\ MissingParameters # {})
        => /\ Errored
           /\ sent = <<>>
           /\ MissingParameters \subseteq FieldsNamed(outcome.message)

\* The parsed results of a report invocation that reached the transformation.
ReachesTransform ==
    /\ tool = "generate_experiment_report"
    /\ pc # "idle"
    /\ MissingParameters = {}
    /\ JSONParse(Get(parameters, "optimizelyResultsJson").s).ok
    /\ JSONParse(Get(parameters, "optimizelyResultsJson").s).value.t = "object"

ResultsJson == JSONParse(Get(parameters, "optimizelyResultsJson").s).value

\* The required fields a parsed results object lacks, by their paths.
MissingResultsFields(resultsJson) ==
    {field \in {"start_time", "end_time", "experiment_id", "metrics", "reach",
                "stats_config"} : Get(resultsJson, field) = Undefined}
    \cup (IF IsArray(Get(resultsJson, "metrics"))
             /\ \E i \in 1..Len(Get(resultsJson, "metrics").items) :
                   Get(Get(resultsJson, "metrics").items[i], "results") = Undefined
          THEN {"results"} ELSE {})
    \cup {field \in {"variations", "total_count"} :
             /\ Get(resultsJson, "reach") # Undefined
             /\ Get(Get(resultsJson, "reach"), field) = Undefined}
    \cup {field \in {"confidence_level"} :
             /\ Get(resultsJson, "stats_config") # Undefined
             /\ Get(Get(resultsJson, "stats_config"), field) = Undefined}

\* C15: when the parsed results lack a required field, the invocation ends
\* before any dispatch in an error that names a missing field.
C15_MissingFieldFailsFast ==
    (ReachesTransform /\ MissingResultsFields(ResultsJson) # {})
        => /\ Errored
           /\ sent = <<>>
           /\ \E field \in MissingResultsFields(ResultsJson) :
                 Embeds(outcome.message, field)

MetricsGiven == Get(ResultsJson, "metrics").items

MetricsReported == Get(Get(sent[1].json, "experimentData"), "metrics").items

\* The variations of a metric that have a lift object.
WithLiftObject(metric) ==
    {result \in {Get(metric, "results").members[i].v :
                    i \in 1..Len(Get(metric, "results").members)} :
        Get(result, "lift").t = "object"}

LiftValuesOf(metric) == {Get(Get(result, "lift"), "value") : result \in WithLiftObject(metric)}

NumericLifts(metric) == \A value \in LiftValuesOf(metric) : value.t = "number"

\* The literal of the greatest lift value of a metric.
BestLift(metric) ==
    (CHOOSE best \in LiftValuesOf(metric) :
        \A value \in LiftValuesOf(metric) : NumVal(value.lit) <= NumVal(best.lit)).lit

\* 100 times a lift value, rounded to one decimal place.
PercentOneDecimal(lit) ==
    CASE lit = "0.0004" -> "0.0"
      [] lit = "0.25" -> "25.0"
      [] lit = "0.625" -> "62.5"
      [] lit = "0.6257" -> "62.6"
      [] lit = "1.5" -> "150.0"

\* C16: a metric's headline lift is the greatest lift.value among exactly the
\* variations that have a lift object; when it is greater than 0 the lift
\* string is "+", 100 times it rounded to one decimal place, and "%".
C16_HeadlineLiftIsMaximum ==
    SendsReport =>
        /\ Len(MetricsReported) = Len(MetricsGiven)
        /\ \A i \in 1..Len(MetricsGiven) :
              (/\ LiftValuesOf(MetricsGiven[i]) # {}
               /\ NumericLifts(MetricsGiven[i])
               /\ NumVal(BestLift(MetricsGiven[i])) > 0)
                  => Get(MetricsReported[i], "lift")
                        = Str("+" \o PercentOneDecimal(BestLift(MetricsGiven[i])) \o "%")

C16_Witness ==
    /\ SendsReport
    /\ Len(MetricsGiven) = 2
    /\ Cardinality(WithLiftObject(MetricsGiven[1])) = 2
    /\ Len(Get(MetricsGiven[1], "results").members) = 3
    /\ BestLift(MetricsGiven[1]) = "0.6257"
    /\ Get(MetricsReported[1], "lift") = Str("+62.6%")

\* C17: a metric's lift string is "N/A" when no variation has a lift object
\* and when the greatest lift value is zero or negative.
C17_NotAvailableUnlessPositive ==
    SendsReport =>
        \A i \in 1..Len(MetricsGiven) :
            (\/ LiftValuesOf(MetricsGiven[i]) = {}
             \/ /\ NumericLifts(MetricsGiven[i])
                /\ NumVal(BestLift(MetricsGiven[i])) <= 0)
                => Get(MetricsReported[i], "lift") = Str("N/A")

C17_Witness ==
    /\ SendsReport
    /\ Len(MetricsGiven) = 1
    /\ LiftValuesOf(MetricsGiven[1]) = {Num("-0.25"), Num("0")}
    /\ Get(MetricsReported[1], "lift") = Str("N/A")

StartGiven == DateOf(Get(ResultsJson, "start_time"))

EndGiven == DateOf(Get(ResultsJson, "end_time"))

DurationReported == Get(Get(sent[1].json, "experimentData"), "duration")

\* The least whole number of days that covers ms milliseconds.
DaysCovering(ms) ==
    CHOOSE n \in 0..20 : n * 86400000 >= ms /\ (n - 1) * 86400000 < ms

\* C18: when start_time is earlier than end_time, the duration is the
\* integer ceil((end - start) / 86400000), which is not negative, followed
\* by " days".
C18_DurationIsCeilOfDays ==
    (SendsReport /\ StartGiven.valid /\ EndGiven.valid /\ StartGiven.ms < EndGiven.ms)
        => DurationReported = Str(ToString(DaysCovering(EndGiven.ms - StartGiven.ms)) \o " days")

C18_Witness ==
    /\ SendsReport
    /\ Get(ResultsJson, "start_time") = Str("2025-10-15T10:30:29Z")
    /\ Get(ResultsJson, "end_time") = Str("2025-10-16T10:30:29.001Z")
    /\ EndGiven.ms - StartGiven.ms = 86400001
    /\ DurationReported = Str("2 days")

ConfidenceGiven == Get(Get(ResultsJson, "stats_config"), "confidence_level")

ConfidenceReported == Get(Get(sent[1].json, "experimentData"), "confidenceLevel")

\* 100 times a confidence level of [0, 1].
HundredTimes(lit) ==
    CASE lit = "0" -> 0
      [] lit = "0.5" -> 50
      [] lit = "0.9" -> 90
      [] lit = "1" -> 100

\* C19: the confidenceLevel of the report payload is 100 times
\* stats_config.confidence_level, hence within 0..100, whatever the payload's
\* confidence_threshold is.
C19_ConfidenceLevelPercent ==
    (SendsReport /\ ConfidenceGiven.t = "number")
        => /\ ConfidenceGiven.lit \in ConfidenceLevels
           /\ ConfidenceReported = Num(ToString(HundredTimes(ConfidenceGiven.lit)))
           /\ HundredTimes(ConfidenceGiven.lit) \in 0..100

C19_Witness ==
    /\ SendsReport
    /\ ConfidenceGiven = Num("0.5")
    /\ Get(ResultsJson, "confidence_threshold") = Num("0.95")
    /\ ConfidenceReported = Num("50")

\* C20: no tool retries.  A step in which fetch rejects ends the invocation
\* in an error with nothing more sent; no step taken with a non-success
\* response makes an outbound call, and the invocation it ends has failed;
\* from an error the only step is the start of the next invocation.
C20_NoRetry ==
    [][/\ (pc = "fetching" /\ response' = NoResponse)
             => (pc' = "done" /\ Errored' /\ sent' = sent)
       /\ (response' # NoResponse /\ ~Ok(response'))
             => (sent' = sent /\ (pc' = "done" => Errored'))
       /\ Errored => (pc' = "idle" /\ sent' = <<>>)]_vars

\* The fetch of list_events rejected: the invocation is over with its one
\* call made.
C20_Witness ==
    /\ Errored
    /\ tool = "list_events"
    /\ pc = "done"
    /\ Len(sent) = 1
    /\ response = NoResponse

\* What an invocation that runs alone hands to fetch.
AloneSent(t, p, a) ==
    IF Handler(t, p, a).k = "fetch" THEN <<Handler(t, p, a).request>> ELSE <<>>

\* The step an invocation that runs alone ends in, given the reply to its
\* own call: the failure fetch rejected with ("" when it resolved) or the
\* response r.
AloneEnd(t, p, a, failure, r) ==
    LET first == Handler(t, p, a)
        read == IF ReaderFor(r) = "reading_json" THEN AfterJson(t, first.locals, r)
                ELSE AfterText(t, first.locals, r, FALSE)
    IN  IF first.k # "fetch" THEN first
        ELSE IF failure # "" THEN AfterFetchRejected(t, first.request, first.locals, failure)
        ELSE IF read.k = "read" THEN AfterText(t, first.locals, r, TRUE)
        ELSE read

EndsAs(call, step) ==
    IF step.k = "throw" THEN call.outcome = [kind |-> "error", message |-> step.message]
    ELSE call.outcome = [kind |-> "result", value |-> step.value]

\* C21: with the steps of the invocations interleaved in any order, each
\* invocation's request and outcome are those of the same invocation run
\* alone with the same reply to its call.
C21_InvocationsIndependent ==
    \A i \in Calls :
        calls[i].pc # "idle"
            => /\ calls[i].sent
                    = AloneSent(calls[i].tool, calls[i].parameters, calls[i].authData)
               /\ calls[i].pc = "done"
                    => EndsAs(calls[i],
                              AloneEnd(calls[i].tool, calls[i].parameters, calls[i].authData,
                                       calls[i].failure, calls[i].response))

\* Two updates of different experiments are in flight together, one done
\* while the other still awaits its body.
C21_Witness ==
    /\ calls[1].tool = "update_experiment"
    /\ calls[2].tool = "update_experiment"
    /\ calls[1].locals # calls[2].locals
    /\ calls[1].pc = "done"
    /\ calls[1].outcome.kind = "result"
    /\ calls[1].sent # <<>>
    /\ calls[2].pc = "reading_json"

\* C22 as stated: the wait for the response is the only suspension, so an
\* invocation that holds its response has run to its end.
C22_SingleSuspension ==
    \A i \in Calls : calls[i].response # NoResponse => calls[i].pc = "done"

\* C22: an invocation suspends at its outbound call and again where it
\* awaits the response body: once, or twice when response.json() fails and
\* response.text() is awaited.  It ends without a suspension when its
\* checks fail before the dispatch, and after the last body read.
C22_SuspendsAtCallAndBodyReads ==
    [][\A i \in Calls :
          calls'[i] # calls[i]
              => /\ calls[i].pc = "idle" => calls'[i].pc \in {"fetching", "done"}
                 /\ (calls[i].pc = "fetching" /\ calls'[i].response # NoResponse)
                        => calls'[i].pc \in {"reading_json", "reading_text"}
                 /\ (calls[i].pc = "fetching" /\ calls'[i].response = NoResponse)
                        => calls'[i].pc = "done"
                 /\ calls[i].pc = "reading_json"
                        => calls'[i].pc \in {"reading_text", "done"}
                 /\ calls[i].pc = "reading_text" => calls'[i].pc = "done"
                 /\ calls[i].pc # "done"]_vars

\* One invocation awaits response.text() after its response.json() failed
\* while another, called meanwhile, awaits its own body.
C22_Witness ==
    /\ calls[1].pc = "reading_text"
    /\ calls[1].bodyUsed
    /\ calls[1].response.status = 200
    /\ calls[2].pc = "reading_json"
    /\ calls[2].response.status = 404

\* A report invocation that passes every check the handler makes on its
\* parameters: required fields, results JSON, transformation and actions.
ReportChecksPass ==
    /\ tool = "generate_experiment_report"
    /\ pc # "idle"
    /\ MissingParameters = {}
    /\ JSONParse(Get(parameters, "optimizelyResultsJson").s).ok
    /\ transformOptimizelyResults(JSONParse(Get(parameters, "optimizelyResultsJson").s).value).ok
    /\ (Falsy(Get(parameters, "actions")) \/ ParseActions(Get(parameters, "actions").s).ok)

\* C23: a report request carries the Supabase API key as its credential: the
\* supabaseApiKey parameter when given, else the key of the environment;
\* where there is none, the invocation ends in the 'Supabase API key is
\* required' error with nothing sent.
C23_SupabaseKeyRequired ==
    ReportChecksPass
        => \/ /\ Len(sent) = 1
              /\ sent[1].authorization # ""
              /\ ~Falsy(Get(parameters, "supabaseApiKey"))
                    => sent[1].authorization
                          = "Bearer " \o Get(parameters, "supabaseApiKey").s
           \/ /\ Falsy(Get(parameters, "supabaseApiKey"))
              /\ Errored
              /\ sent = <<>>
              /\ Embeds(outcome.message, "Supabase API key is required")

\* A create_experiment invocation that has handed its request to fetch.
CreateDispatched == tool \in CreateTools /\ pc # "idle" /\ Len(sent) = 1

\* The name the caller gave the experiment, under either parameter name.
NameGiven == Or(Get(parameters, "name"), Get(parameters, "experiment_name"))

\* The targeting conditions that match one URL, as the JSON text sent.
ConditionsMatching(url) ==
    Str("[\"and\",[\"or\",{\"match_type\":\"simple\",\"type\":\"url\",\"value\":\""
        \o url \o "\"}]]")

\* C24: a create_experiment body has a url_targeting object with the given
\* edit_url and conditions matching it exactly when a non-empty edit_url is
\* supplied, and carries the experiment's name in its name field.
C24_UrlTargetingAndName ==
    CreateDispatched
        => LET body == sent[1].json
               edit_url == Get(parameters, "edit_url")
               url_targeting == Get(body, "url_targeting")
           IN  /\ ~Falsy(edit_url)
                    => /\ Get(url_targeting, "edit_url") = edit_url
                       /\ Get(url_targeting, "conditions") = ConditionsMatching(edit_url.s)
               /\ Falsy(edit_url) => url_targeting = Undefined
               /\ ~Falsy(NameGiven) => Get(body, "name") = NameGiven

\* 100 times a rate or a significance of [0, 1].
Percent(lit) ==
    CASE lit = "0" -> 0
      [] lit = "0.25" -> 25
      [] lit = "0.5" -> 50
      [] lit = "0.75" -> 75
      [] lit = "1" -> 100

\* C25: a metric's variations list has one entry per key of its results, in
\* their order; an entry's value is 100 times the rate and its significance
\* 100 times lift.significance, or 0 for a result without a lift object, so
\* both are within 0..100.
C25_MetricVariations ==
    SendsReport =>
        \A i \in 1..Len(MetricsGiven) :
            LET results == Get(MetricsGiven[i], "results").members
                variations == Get(MetricsReported[i], "variations").items
            IN  /\ Len(variations) = Len(results)
                /\ \A j \in 1..Len(results) :
                      LET result == results[j].v
                          lift == Get(result, "lift")
                          significance ==
                              IF lift.t = "object"
                              THEN Percent(Get(lift, "significance").lit) ELSE 0
                      IN  /\ Get(variations[j], "name") = Get(result, "name")
                          /\ Get(variations[j], "value")
                                = Num(ToString(Percent(Get(result, "rate").lit)))
                          /\ Get(variations[j], "significance") = Num(ToString(significance))
                          /\ Percent(Get(result, "rate").lit) \in 0..100
                          /\ significance \in 0..100

C25_Witness ==
    /\ SendsReport
    /\ Len(MetricsGiven) = 2
    /\ Len(Get(MetricsGiven[1], "results").members) = 3
    /\ Len(Get(MetricsReported[1], "variations").items) = 3
    /\ Get(Get(MetricsReported[1], "variations").items[1], "significance") = Num("0")
    /\ Get(Get(MetricsReported[1], "variations").items[2], "significance") = Num("75")
    /\ Get(Get(MetricsReported[1], "variations").items[2], "value") = Num("25")

\* C26: a list_events result is a success whose events are the response
\* body as read and whose count is the number of elements of a body that
\* is an array, and 0 for any other body.
C26_EventsAndCount ==
    (tool = "list_events" /\ Returned)
        => LET body == BodyRead(response)
           IN  /\ Get(outcome.value, "success") = Bool(TRUE)
               /\ Get(outcome.value, "events") = body
               /\ Get(outcome.value, "count")
                     = Num(ToString(IF body.t = "array" THEN Len(body.items) ELSE 0))

\* The two events of the response are returned and counted.
C26_Witness ==
    /\ tool = "list_events"
    /\ Returned
    /\ response.bodyText = BodyEvents
    /\ Len(Get(outcome.value, "events").items) = 2
    /\ Get(outcome.value, "count") = Num("2")

\* A success response whose body is an object is returned with count 0.
C26_WitnessNotArray ==
    /\ tool = "list_events"
    /\ Returned
    /\ Get(outcome.value, "events").t = "object"
    /\ Get(outcome.value, "count") = Num("0")

\* The value holds the text as one of its strings, at any depth.
RECURSIVE Mentions(_, _)
Mentions(v, text) ==
    CASE v.t = "string" -> v.s = text
      [] v.t = "array" -> \E i \in 1..Len(v.items) : Mentions(v.items[i], text)
      [] v.t = "object" -> \E i \in 1..Len(v.members) : Mentions(v.members[i].v, text)
      [] OTHER -> FALSE

\* C27: what an authenticated tool gives back to the caller, error message
\* or result, does not contain the caller's access token.
C27_TokenNotDisclosed ==
    (tool \in AuthenticatedTools /\ pc = "done" /\ ~Falsy(accessTokenOf(authData)))
        => /\ Errored => ~Embeds(outcome.message, accessTokenOf(authData).s)
           /\ Returned => ~Mentions(outcome.value, accessTokenOf(authData).s)

\* The string is one or more decimal digits and nothing else.
AllDigits(str) ==
    /\ CharsOf(str) # <<>>
    /\ \A i \in 1..Len(CharsOf(str)) : IsDigit(CharsOf(str)[i])

\* C28: a dispatched request of update_experiment, list_events or
\* create_experiment carries as its identifier the number the whole
\* supplied string denotes; a string with any character that is not a digit
\* is never dispatched.
C28_WholeIdentifier ==
    (ParsesIdentifier /\ Len(sent) = 1)
        => /\ AllDigits(JSString(RawIdentifier))
           /\ IdentifierSent = Num(ToString(DigitsValue(CharsOf(JSString(RawIdentifier)))))

\* C29: the body of an update_experiment request has every parameter other
\* than experiment_id and metrics with the caller's value, has no
\* experiment_id, and has a metrics field exactly when a non-empty metrics
\* parameter was given; metrics JSON that is not an array is sent as parsed.
C29_UpdateBodyFrame ==
    SendsUpdate
        => LET body == sent[1].json
               metrics == Get(parameters, "metrics")
           IN  /\ \A i \in 1..Len(parameters.members) :
                     parameters.members[i].k \notin {"experiment_id", "metrics"}
                        => Get(body, parameters.members[i].k) = parameters.members[i].v
               /\ KeyIdx(body, "experiment_id") = {}
               /\ KeyIdx(body, "metrics") # {} <=> ~Falsy(metrics)
               /\ (~Falsy(metrics) /\ JSONParse(metrics.s).value.t # "array")
                     => Get(body, "metrics") = JSONParse(metrics.s).value

\* A renamed experiment with a metrics object: the name and the object are
\* in the body, the experiment id only in the URL.
C29_Witness ==
    /\ SendsUpdate
    /\ Get(parameters, "experiment_id") = Str("12345")
    /\ Get(parameters, "metrics") = Str(MetricsObject)
    /\ Get(sent[1].json, "name") = Str("Renamed")
    /\ Get(sent[1].json, "metrics") = Obj(<<Member("event_id", Num("5"))>>)
    /\ Get(sent[1].json, "experiment_id") = Undefined

\* C30: a report invocation that lacks a required field, or whose results
\* are not valid JSON, or whose transformation throws, or whose actions do
\* not parse, ends in an error without any outbound call.
C30_NoReportOnFailure ==
    (tool = "generate_experiment_report" /\ pc # "idle" /\ ~ReportChecksPass)
        => Errored /\ sent = <<>>

\* Valid results with an actions string that is broken JSON: nothing is
\* sent.
C30_Witness ==
    /\ tool = "generate_experiment_report"
    /\ Errored
    /\ sent = <<>>
    /\ Get(parameters, "optimizelyResultsJson") = Str(ResultsValid)
    /\ Get(parameters, "actions") = Str(ActionsJsonUnclosed)
    /\ outcome.message[1] = "Invalid actions format: "

====
